---- MODULE Spec2Model ----
(***************************************************************************)
(* Model of link2aws/details/findtemp.py: the tempo (BPM) detector.        *)
(*                                                                         *)
(* Floats are modelled exactly as rationals <<n, d>> (d > 0, lowest terms) *)
(* or as the special value NaN.  Halving and doubling are exact in binary  *)
(* floating point, so the rationals are what the octave normalizer         *)
(* computes.  librosa is an external library: what it returns for a file   *)
(* (tempo estimates, tempogram strengths, or an exception) is an input of  *)
(* the model, fixed per file and per configuration.                        *)
(***************************************************************************)
EXTENDS Integers, Sequences, FiniteSets, TLC

VARIABLES
    pc,            \* position in main()/detect_tempo(), or in a function call
    argv,          \* the command line, already split into option values
    args,          \* argparse.Namespace returned by parse_args
    audio_exists,  \* audio_path.exists()
    env_encoding,  \* sys.stdout.encoding of the process
    env_fail,      \* the library call that raises for this file ("none": none does)
    env_sr,        \* sample rate librosa.load reports for this file
    env_temps,     \* what the librosa tempo call returns for this file
    env_tg,        \* np.mean(tempogram, axis=1) for this file; index 1 is lag 0
    env_order,     \* iteration order of the float set in half_double_normalize
    y,             \* "loaded" once librosa.load has returned the waveform
    sr_loaded,
    candidates,
    bpms,
    strengths,
    lags,          \* the lag each kept profile entry comes from
    pick_bpm,
    agg_value,
    stdout,
    stderr,
    rc,            \* main()'s return value, NoRc while running
    run,           \* 1 for the first invocation, 2 for the repeated one
    report1,       \* <<stdout, stderr, rc>> of the first invocation
    call,          \* a direct call of a helper: its arguments
    ret,           \* and its return value
    \* startaisplitter.py and the checkpoint.py it runs under a PTY
    selected_path, \* the path the picker wrote
    choice,        \* what the user types at 'Enter 1 or 2: '
    fs,            \* the machine: ffmpeg, manifest, Downloads, stems root, splitter
    spc,           \* startaisplitter main's position
    splitter_type,
    mode_line,
    wav_input,
    cp_argv,       \* checkpoint.py's command line
    cpc,           \* checkpoint main's position
    cp_args,       \* what its parser made of the command line
    wav_path,
    mode_arg,
    handed,        \* <<script, wav>> given to run_stream
    returncode,    \* checkpoint's exit status
    pty_out,       \* checkpoint's output not yet read from the PTY master
    pty_in,        \* lines written to the PTY master not yet read by checkpoint
    sent_wav,
    sent_mode,
    answers,       \* every answer written to the PTY, in order
    \* the readers of findtemp's output: summarize.py and startdetails.py
    parsed_bpm,    \* summarize main's bpm
    summary,       \* the lines summarize main writes
    tempo_val,     \* startdetails main's tempo_val
    \* startgetaudio.py on a YouTube link
    gfs,           \* the method scripts that exist, and where each yields a file
    yt_methods,
    mp,            \* index in yt_methods of the method being tried
    gpc,           \* main's position
    out_path,
    glog,          \* the lines logged
    \* getaudiofile2.py and the polling loop of startaisplitter.py
    chosen_abs,    \* the path picked
    temp_file,     \* content of the selection file, None while it does not exist
    wpc,           \* write_selection's position
    ppc,           \* read_candidate's position in the polling loop
    waited         \* polls done

tempoVars == <<pc, argv, args, audio_exists, env_encoding, env_fail, env_sr, env_temps, env_tg,
               env_order, y, sr_loaded, candidates, bpms, strengths, lags, pick_bpm,
               agg_value, stdout, stderr, rc, run, report1, call, ret>>

splitterVars == <<selected_path, choice, fs, spc, splitter_type, mode_line, wav_input,
                  cp_argv, cpc, cp_args, wav_path, mode_arg, handed, returncode,
                  pty_out, pty_in, sent_wav, sent_mode, answers>>

\* summarize.py, startdetails.py and startgetaudio.py
scriptVars == <<parsed_bpm, summary, tempo_val, gfs, yt_methods, mp, gpc, out_path, glog>>

pickerVars == <<chosen_abs, temp_file, wpc, ppc, waited>>

vars == <<tempoVars, splitterVars, scriptVars, pickerVars>>

nonTempoVars == <<splitterVars, scriptVars, pickerVars>>

nonSplitterVars == <<tempoVars, scriptVars, pickerVars>>

\* TLC compares values of one kind only, so every float-or-None value is a tuple.
None    == <<>>        \* Python's None where a float or a list is expected
NaN     == <<0, 0>>    \* float("nan")
Unknown == "Unknown"   \* env_fail, env_order, env_encoding: not observed yet
NoTemps == <<<<0, 0, 0>>>>   \* env_temps not observed yet (no list of floats)
NoRc    == 0 - 1       \* rc while main is running

-----------------------------------------------------------------------------
(* Exact arithmetic on floats-as-rationals.                                *)

Abs(i) == IF i < 0 THEN -i ELSE i

RECURSIVE GCD(_, _)
GCD(a, b) == IF b = 0 THEN a ELSE GCD(b, a % b)

R(n, d) == LET g == GCD(Abs(n), d) IN <<n \div g, d \div g>>

RLe(a, b) == a[1] * b[2] <= b[1] * a[2]
RLt(a, b) == a[1] * b[2] <  b[1] * a[2]

RAdd(a, b) == R(a[1] * b[2] + b[1] * a[2], a[2] * b[2])

Half(c)   == R(c[1], 2 * c[2])
Double(c) == R(2 * c[1], c[2])

\* The value in hundredths, rounded half to even.
Hundredths(x) ==
    LET h   == (100 * x[1]) \div x[2]
        rem == (100 * x[1]) % x[2]
    IN  IF 2 * rem > x[2] THEN h + 1
        ELSE IF 2 * rem = x[2] THEN h + (h % 2)
        ELSE h

\* f"{x:.2f}" as text: <<integer part, two decimals>>, or <<"nan">>.
Fmt2(x) ==
    IF x = NaN THEN <<"nan">>
    ELSE <<Hundredths(x) \div 100, Hundredths(x) % 100>>

-----------------------------------------------------------------------------
(* half_double_normalize                                                   *)

Orders == {"asc", "desc"}

RECURSIVE SetToSeq(_)
SetToSeq(S) ==
    IF S = {} THEN <<>>
    ELSE LET x == CHOOSE x \in S : TRUE IN <<x>> \o SetToSeq(S \ {x})

\* list(a set of floats): CPython iterates the set in hash-table order, which is
\* fixed for given contents; `order` is that order.
IterateSet(S, order) ==
    SortSeq(SetToSeq(S), LAMBDA a, b : IF order = "asc" THEN RLt(a, b) ELSE RLt(b, a))

\* abs(c - center) < abs(e - center) with center = 0.5 * (prefer_min + prefer_max),
\* both sides multiplied by the denominators so that they compare as integers.
Nearer(c, e, prefer_min, prefer_max) ==
    LET sum == RAdd(prefer_min, prefer_max)
    IN  Abs(2 * c[1] * sum[2] - sum[1] * c[2]) * e[2]
            < Abs(2 * e[1] * sum[2] - sum[1] * e[2]) * c[2]

\* Mutant: the first in-range value, whatever its distance from the centre.
PyMinFirst(list, prefer_min, prefer_max) == list[1]

\* Python's min(list, key=...): the first element whose key no other undercuts.
PyMinNearest(list, prefer_min, prefer_max) ==
    LET i == CHOOSE i \in 1..Len(list) :
                 /\ \A j \in 1..Len(list) : ~Nearer(list[j], list[i], prefer_min, prefer_max)
                 /\ \A j \in 1..(i - 1) : Nearer(list[i], list[j], prefer_min, prefer_max)
    IN  list[i]

\* Mutant: halves and doubles of the picked value are taken once only.
OctaveCandidatesOnce(cands, iterations) ==
    cands \cup {Half(c) : c \in cands} \cup {Double(c) : c \in cands}

RECURSIVE OctaveCandidates(_, _)
OctaveCandidates(cands, iterations) ==
    IF iterations = 0 THEN cands
    ELSE LET halved  == cands \cup {Half(c) : c \in cands}
             doubled == halved \cup {Double(c) : c \in halved}
         IN  OctaveCandidates(doubled, iterations - 1)

OctaveDepth == 3

InRange(cands, prefer_min, prefer_max) ==
    {c \in cands : RLe(prefer_min, c) /\ RLe(c, prefer_max)}

\* Mutant: a missing bound is taken to be the other bound.
half_double_normalize_one_bound(bpm, prefer_min, prefer_max, order) ==
    LET lo == IF prefer_min = None THEN prefer_max ELSE prefer_min
        hi == IF prefer_max = None THEN prefer_min ELSE prefer_max
    IN  IF lo = None \/ bpm = NaN THEN bpm
        ELSE LET in_range == IterateSet(InRange(OctaveCandidates({bpm}, OctaveDepth),
                                                lo, hi), order)
             IN  IF Len(in_range) > 0 THEN PyMinNearest(in_range, lo, hi) ELSE bpm

\* Mutant: with nothing in range, the generated value nearest the centre is returned.
half_double_normalize_pull(bpm, prefer_min, prefer_max, order) ==
    IF prefer_min = None \/ prefer_max = None THEN bpm
    ELSE IF bpm = NaN THEN bpm
    ELSE LET cands    == OctaveCandidates({bpm}, OctaveDepth)
             in_range == IterateSet(InRange(cands, prefer_min, prefer_max), order)
         IN  IF Len(in_range) > 0
             THEN PyMinNearest(in_range, prefer_min, prefer_max)
             ELSE PyMinNearest(IterateSet(cands, order), prefer_min, prefer_max)

\* Mutant: with nothing in range, one octave step is taken towards the range.
half_double_normalize_step(bpm, prefer_min, prefer_max, order) ==
    IF prefer_min = None \/ prefer_max = None THEN bpm
    ELSE IF bpm = NaN THEN bpm
    ELSE LET cands    == OctaveCandidates({bpm}, OctaveDepth)
             in_range == IterateSet(InRange(cands, prefer_min, prefer_max), order)
         IN  IF Len(in_range) > 0
             THEN PyMinNearest(in_range, prefer_min, prefer_max)
             ELSE IF RLt(prefer_max, bpm) THEN Half(bpm) ELSE Double(bpm)

\* A NaN bpm passes every comparison as False: in_range is empty.
half_double_normalize(bpm, prefer_min, prefer_max, order) ==
    IF prefer_min = None \/ prefer_max = None THEN bpm
    ELSE IF bpm = NaN THEN bpm
    ELSE LET cands    == OctaveCandidates({bpm}, OctaveDepth)
             in_range == IterateSet(InRange(cands, prefer_min, prefer_max), order)
         IN  IF Len(in_range) > 0
             THEN PyMinNearest(in_range, prefer_min, prefer_max)
             ELSE bpm

-----------------------------------------------------------------------------
(* tempogram_strengths                                                     *)

bpm_min == 30
bpm_max == 240

ValidLag(lag) == lag > 0

LagToBpm(sr, hop_length, lag) == R(60 * sr, hop_length * lag)

\* Mutant: the upper bound of the mask is dropped.
InBpmRangeNoUpper(bpm, lo, hi) == RLe(<<lo, 1>>, bpm)

InBpmRange(bpm, lo, hi) == RLe(<<lo, 1>>, bpm) /\ RLe(bpm, <<hi, 1>>)

\* tg is np.mean(tempogram, axis=1): tg[i] is the strength of lag i - 1.
tempogram_strengths(tg, sr, hop_length, lo, hi) ==
    LET all_lags == [i \in 1..Len(tg) |-> i - 1]
        valid    == SelectSeq(all_lags, ValidLag)
        strength == [i \in 1..Len(valid) |-> tg[valid[i] + 1]]
        all_bpms == [i \in 1..Len(valid) |-> LagToBpm(sr, hop_length, valid[i])]
        mask     == SelectSeq([i \in 1..Len(valid) |-> i],
                              LAMBDA i : InBpmRange(all_bpms[i], lo, hi))
    IN  [bpms      |-> [k \in 1..Len(mask) |-> all_bpms[mask[k]]],
         strengths |-> [k \in 1..Len(mask) |-> strength[mask[k]]],
         lags      |-> [k \in 1..Len(mask) |-> valid[mask[k]]]]

-----------------------------------------------------------------------------
(* apply_gaussian_prior                                                    *)
(* Strengths and prior weights are fixed-point numbers in units of 1/10000 *)
(* (the tempogram is a normalised autocorrelation, so strengths are in     *)
(* [0, 1]).  np.exp(-x) is tabulated at x = q/16 as the product of        *)
(* exp(-k) and exp(-r/16) for q = 16k + r, each rounded to 1/10000; it     *)
(* underflows to 0 as np.exp does.                                         *)

\* 10000 * exp(-k), k = 0..10
ExpWhole == <<10000, 3679, 1353, 498, 183, 67, 25, 9, 3, 1, 0>>

\* 10000 * exp(-r/16), r = 0..15
ExpSixteenths == <<10000, 9394, 8825, 8290, 7788, 7316, 6873, 6456,
                   6065, 5698, 5353, 5028, 4724, 4437, 4169, 3916>>

ExpTab[q \in 0..160] ==
    (ExpWhole[(q \div 16) + 1] * ExpSixteenths[(q % 16) + 1] + 5000) \div 10000

ExpNeg16(q) == IF q > 160 THEN 0 ELSE ExpTab[q]

RSub(a, b) == R(a[1] * b[2] - b[1] * a[2], a[2] * b[2])

\* Mutant: the half width is used as it is.
SigmaUnclamped(prefer_min, prefer_max) == Half(RSub(prefer_max, prefer_min))

\* sigma = max((prefer_max - prefer_min) / 2.0, 1.0)
Sigma(prefer_min, prefer_max) ==
    LET half_width == Half(RSub(prefer_max, prefer_min))
    IN  IF RLt(<<1, 1>>, half_width) THEN half_width ELSE <<1, 1>>

\* prior = np.exp(-0.5 * ((bpm - center) / sigma) ** 2) for one bpm:
\* z = (bpm - center) / sigma = num / den, and 0.5 * z * z in sixteenths.
Prior(bpm, prefer_min, prefer_max) ==
    LET center == Half(RAdd(prefer_min, prefer_max))
        sigma  == Sigma(prefer_min, prefer_max)
        diff   == RSub(bpm, center)
        num    == diff[1] * sigma[2]
        den    == diff[2] * sigma[1]
    IN  ExpNeg16((8 * num * num) \div (den * den))

\* Mutant: a missing bound falls back to the profile's own BPM range.
apply_gaussian_prior_default_range(bs, ss, prefer_min, prefer_max) ==
    LET lo == IF prefer_min = None THEN <<bpm_min, 1>> ELSE prefer_min
        hi == IF prefer_max = None THEN <<bpm_max, 1>> ELSE prefer_max
    IN  IF RLe(hi, lo) THEN ss
        ELSE [i \in 1..Len(ss) |-> (ss[i] * Prior(bs[i], lo, hi)) \div 10000]

apply_gaussian_prior(bs, ss, prefer_min, prefer_max) ==
    IF prefer_min = None \/ prefer_max = None THEN ss
    ELSE IF RLe(prefer_max, prefer_min) THEN ss
    ELSE [i \in 1..Len(ss) |-> (ss[i] * Prior(bs[i], prefer_min, prefer_max)) \div 10000]

\* Mutant: the last index holding the maximum.
ArgMaxLast(w) ==
    CHOOSE i \in 1..Len(w) :
        /\ \A j \in 1..Len(w) : w[j] <= w[i]
        /\ \A j \in (i + 1)..Len(w) : w[j] < w[i]

\* np.argmax: the first index holding the maximum (1-based here)
ArgMax(w) ==
    CHOOSE i \in 1..Len(w) :
        /\ \A j \in 1..Len(w) : w[j] <= w[i]
        /\ \A j \in 1..(i - 1) : w[j] < w[i]

-----------------------------------------------------------------------------
(* np.median and np.mean over the candidate list                           *)

RECURSIVE RSum(_)
RSum(s) == IF Len(s) = 0 THEN <<0, 1>> ELSE RAdd(Head(s), RSum(Tail(s)))

HasNaN(s) == \E i \in 1..Len(s) : s[i] = NaN

Mean(s) ==
    IF Len(s) = 0 \/ HasNaN(s) THEN NaN
    ELSE LET t == RSum(s) IN R(t[1], t[2] * Len(s))

\* Mutant: the middle of the list as given, without sorting.
MedianUnsorted(s) ==
    IF Len(s) = 0 \/ HasNaN(s) THEN NaN
    ELSE LET n == Len(s)
         IN  IF n % 2 = 1 THEN s[(n + 1) \div 2]
             ELSE Mean(<<s[n \div 2], s[n \div 2 + 1]>>)

Median(s) ==
    IF Len(s) = 0 \/ HasNaN(s) THEN NaN
    ELSE LET sorted == SortSeq(s, RLt)
             n      == Len(s)
         IN  IF n % 2 = 1 THEN sorted[(n + 1) \div 2]
             ELSE Mean(<<sorted[n \div 2], sorted[n \div 2 + 1]>>)

Aggregate(mode, cands) ==
    IF mode = "median" THEN Median(cands)
    ELSE IF mode = "mean" THEN Mean(cands)
    ELSE None

\* np.atleast_1d(temps).astype(float)[: max(1, topn)].tolist()
TakeCandidates(temps, topn) ==
    LET n == IF topn > 1 THEN topn ELSE 1
    IN  SubSeq(temps, 1, IF Len(temps) < n THEN Len(temps) ELSE n)

-----------------------------------------------------------------------------
(* Inputs: the command lines and the files the model is run on.            *)

MaxLag   == 3    \* the tempogram has lags 0..MaxLag
MaxTemps == 2    \* the librosa tempo call returns at most MaxTemps estimates

TopnValues     == {0, 1, 2}
HopLengths     == {0, 768, 4096}
AggregateModes == {"median", "mean", "none"}
PreferPairs    == {<<None, None>>, <<None, <<80, 1>>>>, <<<<70, 1>>, None>>,
                   <<<<40, 1>>, <<80, 1>>>>, <<<<70, 1>>, <<100, 1>>>>,
                   <<<<100, 1>>, <<80, 1>>>>}
SampleRates    == {1024, 4096}
TempValues     == {<<80, 1>>, NaN}
StrengthValues == {0, 10000}

CommandLines ==
    [topn : TopnValues, hop_length : HopLengths, aggregate : AggregateModes,
     prefer : PreferPairs, normalize : BOOLEAN]

SeqsUpTo(S, n) == UNION {[1..k -> S] : k \in 0..n}

\* The tempo call with aggregate=None returns one estimate per onset frame, and an
\* envelope has at least one frame: the array is never empty.
TempoArrays == SeqsUpTo(TempValues, MaxTemps) \ {<<>>}

\* What an environment value may be when it is first observed; the same value
\* when the same file is analysed again.
Observe(env, unknown, S) == IF env = unknown THEN S ELSE {env}

-----------------------------------------------------------------------------
(* main and detect_tempo, one action per step.                             *)

\* startaisplitter.py is not running.
SplitterIdle ==
    /\ selected_path = None /\ choice = "" /\ fs = None /\ spc = "off"
    /\ splitter_type = "" /\ mode_line = None /\ wav_input = None
    /\ cp_argv = None /\ cpc = "off" /\ cp_args = None /\ wav_path = None
    /\ mode_arg = None /\ handed = None /\ returncode = NoRc
    /\ pty_out = <<>> /\ pty_in = <<>> /\ sent_wav = FALSE /\ sent_mode = FALSE
    /\ answers = <<>>

\* summarize.py and startdetails.py have not read anything.
ReaderIdle == parsed_bpm = None /\ summary = None /\ tempo_val = None

\* startgetaudio.py is not running.
GetAudioIdle ==
    /\ gfs = None /\ yt_methods = None /\ mp = 0 /\ gpc = "off" /\ out_path = None
    /\ glog = <<>>

\* No picker is open and nothing polls for its file.
PickerIdle ==
    chosen_abs = None /\ temp_file = None /\ wpc = "off" /\ ppc = "off" /\ waited = 0

Idle ==
    /\ args = None /\ y = "unset" /\ sr_loaded = 0 /\ candidates = None
    /\ bpms = None /\ strengths = None /\ lags = None /\ pick_bpm = None
    /\ agg_value = None /\ stdout = <<>> /\ stderr = <<>> /\ rc = NoRc

Init ==
    /\ pc = "start"
    /\ argv \in CommandLines
    /\ audio_exists \in BOOLEAN
    /\ env_fail = Unknown /\ env_sr = 0 /\ env_temps = NoTemps
    /\ env_tg = <<>> /\ env_order = Unknown /\ env_encoding = Unknown
    /\ Idle
    /\ run = 1 /\ report1 = None
    /\ call = None /\ ret = None
    /\ SplitterIdle
    /\ ReaderIdle /\ GetAudioIdle /\ PickerIdle

\* parse_args
parse_args(v) ==
    [topn |-> v.topn, hop_length |-> v.hop_length, aggregate |-> v.aggregate,
     prefer_min |-> v.prefer[1], prefer_max |-> v.prefer[2], normalize |-> v.normalize]

ParseArgs ==
    /\ pc = "start"
    /\ args' = parse_args(argv)
    /\ pc' = "exists"
    /\ UNCHANGED <<argv, audio_exists, env_encoding, env_fail, env_sr, env_temps, env_tg, env_order,
                   y, sr_loaded, candidates, bpms, strengths, lags, pick_bpm, agg_value,
                   stdout, stderr, rc, run, report1, call, ret>>
    /\ UNCHANGED nonTempoVars

\* The positional argument: the path main resolves and names in its messages.
audio_path == "song.wav"

\* Mutant: the existence test is skipped.
CheckExistsSkipped ==
    /\ pc = "exists"
    /\ pc' = "load"
    /\ UNCHANGED <<argv, args, audio_exists, env_encoding, env_fail, env_sr, env_temps, env_tg, env_order,
                   y, sr_loaded, candidates, bpms, strengths, lags, pick_bpm, agg_value,
                   stdout, stderr, rc, run, report1, call, ret>>
    /\ UNCHANGED nonTempoVars

\* if not audio_path.exists(): print error, return 2
CheckExists ==
    /\ pc = "exists"
    /\ IF audio_exists
       THEN pc' = "load" /\ UNCHANGED <<stderr, rc>>
       ELSE pc' = "done" /\ stderr' = <<"File not found", audio_path>> /\ rc' = 2
    /\ UNCHANGED <<argv, args, audio_exists, env_encoding, env_fail, env_sr, env_temps, env_tg, env_order,
                   y, sr_loaded, candidates, bpms, strengths, lags, pick_bpm, agg_value,
                   stdout, run, report1, call, ret>>
    /\ UNCHANGED nonTempoVars

\* except Exception as e: print error, return 1
AnalysisFailed ==
    /\ pc' = "done"
    /\ stderr' = <<"Failed to analyze tempo">>
    /\ rc' = 1

\* y, sr_loaded = librosa.load(...); librosa.effects.trim
Load ==
    /\ pc = "load"
    /\ \/ /\ env_fail \in {Unknown, "load"}
          /\ env_fail' = "load"
          /\ AnalysisFailed
          /\ UNCHANGED <<env_sr, y, sr_loaded>>
       \/ /\ env_fail # "load"
          /\ \E sr \in Observe(env_sr, 0, SampleRates) :
                env_sr' = sr /\ sr_loaded' = sr
          /\ y' = "loaded"
          /\ pc' = "onset"
          /\ UNCHANGED <<env_fail, stderr, rc>>
    /\ UNCHANGED <<argv, args, audio_exists, env_encoding, env_temps, env_tg, env_order,
                   candidates, bpms, strengths, lags, pick_bpm, agg_value,
                   stdout, run, report1, call, ret>>
    /\ UNCHANGED nonTempoVars

\* onset_env_percussive, the tempo call, candidates = temps[: max(1, topn)]
\* (librosa rejects a hop length that is not a positive integer)
Candidates ==
    /\ pc = "onset"
    /\ \/ /\ args.hop_length <= 0 \/ env_fail \in {Unknown, "onset"}
          /\ env_fail' = IF args.hop_length <= 0 THEN env_fail ELSE "onset"
          /\ AnalysisFailed
          /\ UNCHANGED <<env_temps, candidates>>
       \/ /\ args.hop_length > 0 /\ env_fail # "onset"
          /\ \E temps \in Observe(env_temps, NoTemps, TempoArrays) :
                /\ env_temps' = temps
                /\ candidates' = TakeCandidates(temps, args.topn)
          /\ pc' = "tempogram"
          /\ UNCHANGED <<env_fail, stderr, rc>>
    /\ UNCHANGED <<argv, args, audio_exists, env_encoding, env_sr, env_tg, env_order,
                   y, sr_loaded, bpms, strengths, lags, pick_bpm, agg_value,
                   stdout, run, report1, call, ret>>
    /\ UNCHANGED nonTempoVars

\* bpms, strengths = tempogram_strengths(onset_env, sr_loaded, hop_length)
Tempogram ==
    /\ pc = "tempogram"
    /\ \/ /\ env_fail \in {Unknown, "tempogram"}
          /\ env_fail' = "tempogram"
          /\ AnalysisFailed
          /\ UNCHANGED <<env_tg, bpms, strengths, lags>>
       \/ /\ env_fail # "tempogram"
          /\ env_fail' = "none"
          /\ \E tg \in Observe(env_tg, <<>>, [1..(MaxLag + 1) -> StrengthValues]) :
                LET p == tempogram_strengths(tg, sr_loaded, args.hop_length,
                                             bpm_min, bpm_max)
                IN  /\ env_tg' = tg
                    /\ bpms' = p.bpms
                    /\ strengths' = p.strengths
                    /\ lags' = p.lags
          /\ pc' = "pick"
          /\ UNCHANGED <<stderr, rc>>
    /\ UNCHANGED <<argv, args, audio_exists, env_encoding, env_sr, env_temps, env_order,
                   y, sr_loaded, candidates, pick_bpm, agg_value,
                   stdout, run, report1, call, ret>>
    /\ UNCHANGED nonTempoVars

Weighted == apply_gaussian_prior(bpms, strengths, args.prefer_min, args.prefer_max)

\* Mutant: the fallback takes the last candidate.
LastCandidate(cands) == cands[Len(cands)]

\* float(candidates[0])
FirstCandidate(cands) == cands[1]

\* pick_bpm = float(bpms[np.argmax(weighted)]) if len(bpms) else float(candidates[0])
Pick ==
    /\ pc = "pick"
    /\ IF Len(bpms) > 0
       THEN pick_bpm' = bpms[ArgMax(Weighted)] /\ pc' = "normalize"
                      /\ UNCHANGED <<stderr, rc>>
       ELSE IF Len(candidates) > 0
       THEN pick_bpm' = FirstCandidate(candidates) /\ pc' = "normalize"
                      /\ UNCHANGED <<stderr, rc>>
       ELSE AnalysisFailed /\ UNCHANGED pick_bpm      \* candidates[0]: IndexError
    /\ UNCHANGED <<argv, args, audio_exists, env_encoding, env_fail, env_sr, env_temps, env_tg, env_order,
                   y, sr_loaded, candidates, bpms, strengths, lags, agg_value,
                   stdout, run, report1, call, ret>>
    /\ UNCHANGED nonTempoVars

\* The order of list(candidates) shows only when two or more values are in range.
OrderShows ==
    /\ args.prefer_min # None /\ args.prefer_max # None /\ pick_bpm # NaN
    /\ Cardinality(InRange(OctaveCandidates({pick_bpm}, OctaveDepth),
                           args.prefer_min, args.prefer_max)) >= 2

\* Mutant: the iteration order is drawn afresh in every process.
SetOrdersPerProcess == Orders

\* CPython does not randomise float hashes: the same set iterates in the same
\* order in every process.
SetOrders == Observe(env_order, Unknown, Orders)

\* Mutant: the candidates are folded into the preferred range as well.
NormalizeCandidatesToo ==
    /\ pc = "normalize"
    /\ IF args.normalize
       THEN \E order \in (IF OrderShows THEN SetOrders ELSE {env_order}) :
                /\ env_order' = order
                /\ pick_bpm' = half_double_normalize(pick_bpm, args.prefer_min,
                                                     args.prefer_max, order)
                /\ candidates' = [i \in 1..Len(candidates) |->
                                     half_double_normalize(candidates[i], args.prefer_min,
                                                           args.prefer_max, "asc")]
       ELSE UNCHANGED <<env_order, pick_bpm, candidates>>
    /\ pc' = "aggregate"
    /\ UNCHANGED <<argv, args, audio_exists, env_encoding, env_fail, env_sr, env_temps, env_tg,
                   y, sr_loaded, bpms, strengths, lags, agg_value,
                   stdout, stderr, rc, run, report1, call, ret>>
    /\ UNCHANGED nonTempoVars

\* if normalize_half_double: pick_bpm = half_double_normalize(...)
Normalize ==
    /\ pc = "normalize"
    /\ IF args.normalize
       THEN \E order \in (IF OrderShows THEN SetOrders ELSE {env_order}) :
                /\ env_order' = order
                /\ pick_bpm' = half_double_normalize(pick_bpm, args.prefer_min,
                                                     args.prefer_max, order)
       ELSE UNCHANGED <<env_order, pick_bpm>>
    /\ pc' = "aggregate"
    /\ UNCHANGED <<argv, args, audio_exists, env_encoding, env_fail, env_sr, env_temps, env_tg,
                   y, sr_loaded, candidates, bpms, strengths, lags, agg_value,
                   stdout, stderr, rc, run, report1, call, ret>>
    /\ UNCHANGED nonTempoVars

\* agg_value = np.median / np.mean / None; return the result dict
AggregateStep ==
    /\ pc = "aggregate"
    /\ agg_value' = Aggregate(args.aggregate, candidates)
    /\ pc' = "print"
    /\ UNCHANGED <<argv, args, audio_exists, env_encoding, env_fail, env_sr, env_temps, env_tg, env_order,
                   y, sr_loaded, candidates, bpms, strengths, lags, pick_bpm,
                   stdout, stderr, rc, run, report1, call, ret>>
    /\ UNCHANGED nonTempoVars

\* Mutant: the Prefers line is printed as soon as one bound is given.
ReportPrefersEither ==
    <<<<"File">>,
      <<"SR/HL", sr_loaded, args.hop_length, Fmt2(R(sr_loaded, args.hop_length))>>>>
    \o (IF args.prefer_min # None \/ args.prefer_max # None
        THEN <<<<"Prefers",
                 IF args.prefer_min = None THEN <<"None">> ELSE Fmt2(args.prefer_min),
                 IF args.prefer_max = None THEN <<"None">> ELSE Fmt2(args.prefer_max),
                 IF args.normalize THEN "on" ELSE "off">>>>
        ELSE <<>>)
    \o <<<<"Candidates", [i \in 1..Len(candidates) |-> Fmt2(candidates[i])]>>>>
    \o (IF agg_value # None
        THEN <<<<"Aggregate", args.aggregate, Fmt2(agg_value)>>>>
        ELSE <<>>)
    \o <<<<"Picked", Fmt2(pick_bpm)>>>>

\* The lines main prints, each a tuple of its label and its formatted fields.
Report ==
    <<<<"File">>,
      <<"SR/HL", sr_loaded, args.hop_length, Fmt2(R(sr_loaded, args.hop_length))>>>>
    \o (IF args.prefer_min # None /\ args.prefer_max # None
        THEN <<<<"Prefers", Fmt2(args.prefer_min), Fmt2(args.prefer_max),
                 IF args.normalize THEN "on" ELSE "off">>>>
        ELSE <<>>)
    \o <<<<"Candidates", [i \in 1..Len(candidates) |-> Fmt2(candidates[i])]>>>>
    \o (IF agg_value # None
        THEN <<<<"Aggregate", args.aggregate, Fmt2(agg_value)>>>>
        ELSE <<>>)
    \o <<<<"Picked", Fmt2(pick_bpm)>>>>

\* The characters of a report line outside ASCII: the f-strings of lines 190
\* and 192.
NonAscii(line) ==
    IF line[1] = "SR/HL" THEN {"U+2248"}
    ELSE IF line[1] = "Prefers" THEN {"U+2026"}
    ELSE {}

\* What a text encoding can encode besides ASCII. sys.stdout takes the locale's
\* encoding when it is redirected: UTF-8, or a code page such as cp1252, which
\* has the ellipsis and not the almost-equal sign.
Encodings == {"utf-8", "cp1252"}

Encodes(encoding, ch) == encoding = "utf-8" \/ (encoding = "cp1252" /\ ch = "U+2026")

Printable(line, encoding) == \A ch \in NonAscii(line) : Encodes(encoding, ch)

\* print() line by line: the first line the stream cannot encode raises
\* UnicodeEncodeError and the lines before it stay written.
Printed(lines, encoding) ==
    LET bad == {i \in 1..Len(lines) : ~Printable(lines[i], encoding)}
    IN  IF bad = {} THEN lines
        ELSE SubSeq(lines, 1, (CHOOSE i \in bad : \A j \in bad : i <= j) - 1)

\* Lines 188-198 are outside the try: an exception raised by print leaves main
\* and the interpreter exits with status 1.
PrintReport ==
    /\ pc = "print"
    /\ \E encoding \in Observe(env_encoding, Unknown, Encodings) :
           /\ env_encoding' = encoding
           /\ stdout' = Printed(Report, encoding)
           /\ rc' = IF Printed(Report, encoding) = Report THEN 0 ELSE 1
           /\ stderr' = IF Printed(Report, encoding) = Report THEN stderr
                         ELSE <<"Traceback", "UnicodeEncodeError">>
    /\ pc' = "done"
    /\ UNCHANGED <<argv, args, audio_exists, env_fail, env_sr, env_temps, env_tg, env_order,
                   y, sr_loaded, candidates, bpms, strengths, lags, pick_bpm, agg_value,
                   run, report1, call, ret>>
    /\ UNCHANGED nonTempoVars

Next ==
    \/ ParseArgs
    \/ CheckExists
    \/ Load
    \/ Candidates
    \/ Tempogram
    \/ Pick
    \/ Normalize
    \/ AggregateStep
    \/ PrintReport

Spec == Init /\ [][Next]_vars

-----------------------------------------------------------------------------
(* The same command line run a second time on the same file.               *)

Rerun ==
    /\ pc = "done" /\ run = 1
    /\ report1' = <<stdout, stderr, rc>>
    /\ run' = 2
    /\ pc' = "start"
    /\ args' = None /\ y' = "unset" /\ sr_loaded' = 0 /\ candidates' = None
    /\ bpms' = None /\ strengths' = None /\ lags' = None /\ pick_bpm' = None
    /\ agg_value' = None /\ stdout' = <<>> /\ stderr' = <<>> /\ rc' = NoRc
    /\ UNCHANGED <<argv, audio_exists, env_encoding, env_fail, env_sr, env_temps, env_tg, env_order,
                   call, ret>>
    /\ UNCHANGED nonTempoVars

NextTwice == Next \/ Rerun

SpecTwice == Init /\ [][NextTwice]_vars

-----------------------------------------------------------------------------
(* The same file analysed a second time with the normalization switch      *)
(* flipped and every other option kept.                                    *)

\* The dict detect_tempo returns.
Result ==
    [bpm |-> pick_bpm, candidates |-> candidates, aggregate |-> agg_value,
     sr |-> sr_loaded, hop_length |-> args.hop_length,
     frame_rate |-> R(sr_loaded, args.hop_length)]

RerunToggled ==
    /\ pc = "done" /\ run = 1
    /\ report1' = <<stdout, stderr, rc, IF rc = 0 THEN Result ELSE None>>
    /\ run' = 2
    /\ pc' = "start"
    /\ argv' = [argv EXCEPT !.normalize = ~argv.normalize]
    /\ args' = None /\ y' = "unset" /\ sr_loaded' = 0 /\ candidates' = None
    /\ bpms' = None /\ strengths' = None /\ lags' = None /\ pick_bpm' = None
    /\ agg_value' = None /\ stdout' = <<>> /\ stderr' = <<>> /\ rc' = NoRc
    /\ UNCHANGED <<audio_exists, env_encoding, env_fail, env_sr, env_temps, env_tg, env_order,
                   call, ret>>
    /\ UNCHANGED nonTempoVars

NextToggled == Next \/ RerunToggled

SpecToggled == Init /\ [][NextToggled]_vars

\* findtemp is not running: a helper is called directly, or another script runs.
NotRunning ==
    /\ argv = None /\ audio_exists = FALSE
    /\ env_fail = Unknown /\ env_sr = 0 /\ env_temps = NoTemps
    /\ env_tg = <<>> /\ env_order = Unknown /\ env_encoding = Unknown
    /\ Idle
    /\ run = 1 /\ report1 = None
    /\ ReaderIdle

-----------------------------------------------------------------------------
(* The readers of findtemp's output: summarize.py and startdetails.py.     *)
(* Text is a sequence of tokens: <<word>> for a run of word characters or  *)
(* one punctuation mark, <<" ">> for a run of blanks, <<"\n">> for a line  *)
(* break, <<whole, hundredths>> for a number printed with .2f and          *)
(* <<n, 0, 0>> for a printed integer.                                      *)

SP == <<" ">>

NL == <<"\n">>

IntTok(n) == <<n, 0, 0>>

IsSpace(tok) == tok = SP \/ tok = NL

\* ", ".join(f"{bpm:.2f}" for bpm in result["candidates"])
RECURSIVE JoinCands(_)
JoinCands(cands) ==
    IF cands = <<>> THEN <<>>
    ELSE IF Len(cands) = 1 THEN <<cands[1]>>
    ELSE <<cands[1], <<",">>, SP>> \o JoinCands(Tail(cands))

\* The characters of one printed report line.
RenderLine(line) ==
    IF line[1] = "File"
    THEN <<<<"File">>, SP, <<":">>, SP, <<audio_path>>>>
    ELSE IF line[1] = "SR/HL"
    THEN <<<<"SR">>, <<"/">>, <<"HL">>, SP, <<":">>, SP, IntTok(line[2]), SP, <<"/">>, SP,
           IntTok(line[3]), SP, <<"(">>, <<"frame_rate">>, SP, <<"U+2248">>, SP, line[4], SP,
           <<"Hz">>, <<")">>>>
    ELSE IF line[1] = "Prefers"
    THEN <<<<"Prefers">>, SP, <<":">>, SP, <<"[">>, line[2], SP, <<"U+2026">>, SP, line[3],
           <<"]">>, SP, <<"BPM">>, SP, <<"(">>, <<"normalization">>, <<"=">>, <<line[4]>>,
           <<")">>>>
    ELSE IF line[1] = "Candidates"
    THEN <<<<"Candidates">>, SP, <<"(">>, <<"BPM">>, <<")">>, <<":">>, SP, <<"[">>>>
         \o JoinCands(line[2]) \o <<<<"]">>>>
    ELSE IF line[1] = "Aggregate"
    THEN <<<<"Aggregate">>, SP, <<"(">>, <<line[2]>>, <<")">>, <<":">>, SP, line[3], SP,
           <<"BPM">>>>
    ELSE <<<<"Picked">>, SP, <<":">>, SP, line[2], SP, <<"BPM">>>>

\* What print wrote to standard output: each line and its line break.
RECURSIVE RenderOut(_)
RenderOut(lines) ==
    IF lines = <<>> THEN <<>>
    ELSE RenderLine(Head(lines)) \o <<NL>> \o RenderOut(Tail(lines))

\* The message on standard error: the two [error] lines of main, or the
\* interpreter's traceback.
RenderErr(line) ==
    IF line = <<>> THEN <<>>
    ELSE IF line[1] = "File not found"
    THEN <<<<"[">>, <<"error">>, <<"]">>, SP, <<"File">>, SP, <<"not">>, SP, <<"found">>,
           <<":">>, SP, <<line[2]>>, NL>>
    ELSE IF line[1] = "Failed to analyze tempo"
    THEN <<<<"[">>, <<"error">>, <<"]">>, SP, <<"Failed">>, SP, <<"to">>, SP, <<"analyze">>,
           SP, <<"tempo">>, <<":">>, SP, <<"e">>, NL>>
    ELSE <<<<"Traceback">>, SP, <<"(">>, <<"most">>, SP, <<"recent">>, SP, <<"call">>, SP,
           <<"last">>, <<")">>, <<":">>, NL, <<line[2]>>, <<":">>, SP, <<"e">>, NL>>

\* str.strip(chars)
StripChars(text, chars) ==
    LET inked == {i \in 1..Len(text) : text[i] \notin chars}
    IN  IF inked = {} THEN <<>>
        ELSE SubSeq(text, CHOOSE i \in inked : \A j \in inked : i <= j,
                    CHOOSE i \in inked : \A j \in inked : j <= i)

\* re.IGNORECASE on the words that occur in the output.
Lower(word) ==
    IF word = "Aggregate" THEN "aggregate"
    ELSE IF word = "BPM" THEN "bpm"
    ELSE IF word = "Picked" THEN "picked"
    ELSE IF word = "Candidates" THEN "candidates"
    ELSE IF word = "Prefers" THEN "prefers"
    ELSE IF word = "File" THEN "file"
    ELSE IF word = "Failed" THEN "failed"
    ELSE IF word = "Traceback" THEN "traceback"
    ELSE IF word = "Hz" THEN "hz"
    ELSE IF word = "SR" THEN "sr"
    ELSE IF word = "HL" THEN "hl"
    ELSE IF word = "Tempo" THEN "tempo"
    ELSE IF word = "Key" THEN "key"
    ELSE word

NoMatch == <<"">>

\* A pattern is a sequence of "\\s*", "(num)" for ([0-9]+(?:\.[0-9]+)?), "[:=]",
\* or a literal in lower case.  The value is the captured number when the
\* pattern matches the text from token i on, NoMatch otherwise.
RECURSIVE MatchHere(_, _, _, _, _)
MatchHere(text, i, pat, k, cap) ==
    IF k > Len(pat) THEN cap
    ELSE IF pat[k] = "\\s*"
    THEN IF i <= Len(text) /\ IsSpace(text[i])
         THEN MatchHere(text, i + 1, pat, k, cap)
         ELSE MatchHere(text, i, pat, k + 1, cap)
    ELSE IF i > Len(text) THEN NoMatch
    ELSE IF pat[k] = "(num)"
    THEN IF Len(text[i]) >= 2 THEN MatchHere(text, i + 1, pat, k + 1, text[i]) ELSE NoMatch
    ELSE IF pat[k] = "[:=]"
    THEN IF text[i] = <<":">> \/ text[i] = <<"=">>
         THEN MatchHere(text, i + 1, pat, k + 1, cap)
         ELSE NoMatch
    ELSE IF Len(text[i]) = 1 /\ Lower(text[i][1]) = pat[k]
    THEN MatchHere(text, i + 1, pat, k + 1, cap)
    ELSE NoMatch

\* re.search(...).group(1): the leftmost match.
re_search(pat, text) ==
    LET hits == {i \in 1..Len(text) : MatchHere(text, i, pat, 1, NoMatch) # NoMatch}
    IN  IF hits = {} THEN NoMatch
        ELSE MatchHere(text, CHOOSE i \in hits : \A j \in hits : i <= j, pat, 1, NoMatch)

\* Mutant: the aggregate line of any mode.
parse_aggregate_bpm_any_mode(text) ==
    LET of(mode) == re_search(<<"aggregate", "\\s*", "(", mode, ")", "\\s*", ":", "\\s*",
                                "(num)", "\\s*", "bpm">>, text)
    IN  IF of("median") # NoMatch THEN of("median")
        ELSE IF of("mean") # NoMatch THEN of("mean")
        ELSE NoMatch

\* r"Aggregate\s*\(median\)\s*:\s*([0-9]+(?:\.[0-9]+)?)\s*BPM", re.IGNORECASE
parse_aggregate_bpm(text) ==
    re_search(<<"aggregate", "\\s*", "(", "median", ")", "\\s*", ":", "\\s*", "(num)",
                "\\s*", "bpm">>, text)

\* summarize main on the output of run_findtemp,
\* (proc.stdout or "") + ("\n" + proc.stderr if proc.stderr else "") stripped:
\* the tempo line is written only for a non-empty bpm.
Summarize ==
    /\ pc = "done" /\ summary = None
    /\ LET out == RenderOut(stdout)
                  \o (IF stderr # <<>> THEN <<NL>> \o RenderErr(stderr) ELSE <<>>)
           bpm == parse_aggregate_bpm(StripChars(out, {SP, NL}))
       IN  /\ parsed_bpm' = bpm
           /\ summary' = <<<<"SUMMARY GENERATED">>, <<"WAV FILE">>>>
                         \o (IF bpm # NoMatch
                             THEN <<<<"TEMPO (Aggregate/Median)", bpm>>>>
                             ELSE <<>>)
                         \o <<<<"DISPLAY">>>>
    /\ UNCHANGED <<tempo_val, gfs, yt_methods, mp, gpc, out_path, glog>>
    /\ UNCHANGED <<tempoVars, splitterVars, pickerVars>>

\* The readers are followed on the runs with the default hop length's stand-in
\* and a positive candidate count.
InitReaders == Init /\ argv.hop_length = 768 /\ argv.topn > 0

SpecReaders == InitReaders /\ [][Next \/ Summarize]_vars

\* r"tempo\s*=\s*(num)", r"\b(num)\s*BPM\b", r"\bBPM\s*[:=]\s*(num)"
TempoPatterns ==
    <<<<"tempo", "\\s*", "=", "\\s*", "(num)">>,
      <<"(num)", "\\s*", "bpm">>,
      <<"bpm", "\\s*", "[:=]", "\\s*", "(num)">>>>

\* Mutant: 'BPM: <number>' is looked for before '<number> BPM'.
parse_tempo_colon_first(text) ==
    LET m(k) == re_search(TempoPatterns[k], text)
    IN  IF m(1) # NoMatch THEN m(1)
        ELSE IF m(3) # NoMatch THEN m(3)
        ELSE IF m(2) # NoMatch THEN m(2)
        ELSE <<"Unknown">>

\* The three searches in their order, "Unknown" when none matches.
parse_tempo(text) ==
    LET m(k) == re_search(TempoPatterns[k], text)
    IN  IF m(1) # NoMatch THEN m(1)
        ELSE IF m(2) # NoMatch THEN m(2)
        ELSE IF m(3) # NoMatch THEN m(3)
        ELSE <<"Unknown">>

\* startdetails main, after run_py(findtemp, ...) has returned:
\* tempo_text = read_text(ft_out) + "\n" + read_text(ft_err)
StartDetails ==
    /\ pc = "done" /\ tempo_val = None
    /\ tempo_val' = parse_tempo(RenderOut(stdout) \o <<NL>> \o RenderErr(stderr))
    /\ UNCHANGED <<parsed_bpm, summary, gfs, yt_methods, mp, gpc, out_path, glog>>
    /\ UNCHANGED <<tempoVars, splitterVars, pickerVars>>

MaxSnippets == 3   \* parse_tempo is called on texts of up to MaxSnippets lines

\* Lines an analysis script may print: 'tempo = 120', 'Tempo=99.50',
\* '128.00 BPM', '64 bpm', 'BPM: 90', 'bpm = 75', 'Key: A'.
TempoSnippets ==
    {<<<<"tempo">>, SP, <<"=">>, SP, IntTok(120), NL>>,
     <<<<"Tempo">>, <<"=">>, <<99, 50>>, NL>>,
     <<<<128, 0>>, SP, <<"BPM">>, NL>>,
     <<IntTok(64), SP, <<"bpm">>, NL>>,
     <<<<"BPM">>, <<":">>, SP, IntTok(90), NL>>,
     <<<<"bpm">>, SP, <<"=">>, SP, IntTok(75), NL>>,
     <<<<"Key">>, <<":">>, SP, <<"A">>, NL>>}

RECURSIVE Concat(_)
Concat(seqs) == IF seqs = <<>> THEN <<>> ELSE Head(seqs) \o Concat(Tail(seqs))

InitParseTempo ==
    /\ pc = "call"
    /\ call \in {Concat(ls) : ls \in SeqsUpTo(TempoSnippets, MaxSnippets)}
    /\ ret = None
    /\ NotRunning
    /\ SplitterIdle /\ GetAudioIdle /\ PickerIdle

CallParseTempo ==
    /\ pc = "call"
    /\ ret' = parse_tempo(call)
    /\ pc' = "returned"
    /\ UNCHANGED <<argv, args, audio_exists, env_encoding, env_fail, env_sr, env_temps,
                   env_tg, env_order, y, sr_loaded, candidates, bpms, strengths, lags,
                   pick_bpm, agg_value, stdout, stderr, rc, run, report1, call>>
    /\ UNCHANGED nonTempoVars

\* parse_tempo on the output of findtemp runs and on the texts above.
SpecDetails ==
    (InitReaders \/ InitParseTempo) /\ [][Next \/ StartDetails \/ CallParseTempo]_vars

-----------------------------------------------------------------------------
(* startgetaudio.py on a YouTube link: the chain of download methods.      *)
(* commandroutes/start.py runs the same chain.                             *)

MethodNames == <<"method1.py", "method2.py", "method3.py">>

LegacyMethod == "methods/method1.py"

\* Mutant: the scripts found are listed from method3.py down.
find_youtube_methods_reversed(exists) ==
    LET paths == SelectSeq(<<MethodNames[3], MethodNames[2], MethodNames[1]>>,
                           LAMBDA name : name \in exists)
    IN  IF paths # <<>> THEN paths
        ELSE IF LegacyMethod \in exists THEN <<LegacyMethod>> ELSE <<>>

\* The method scripts that exist, in priority order; methods/method1.py when
\* methods/youtube/ holds none.
find_youtube_methods(exists) ==
    LET paths == SelectSeq(MethodNames, LAMBDA name : name \in exists)
    IN  IF paths # <<>> THEN paths
        ELSE IF LegacyMethod \in exists THEN <<LegacyMethod>> ELSE <<>>

\* The existing file a method's run names.
OutputOf(method) == <<"Downloads", method>>

\* A method yields an existing output file from its in-process call, only from
\* its run as a script, or not at all.
InitGetAudio ==
    /\ gfs \in [exists : SUBSET ({MethodNames[i] : i \in 1..3} \cup {LegacyMethod}),
                 yields : [{MethodNames[i] : i \in 1..3} \cup {LegacyMethod}
                              -> {"inprocess", "cli", "none"}]]
    /\ yt_methods = None /\ mp = 0 /\ gpc = "route" /\ out_path = None /\ glog = <<>>
    /\ pc = "off" /\ call = None /\ ret = None
    /\ NotRunning /\ SplitterIdle /\ PickerIdle

\* main, platform == "youtube": find_youtube_methods
FindMethods ==
    /\ gpc = "route"
    /\ yt_methods' = find_youtube_methods(gfs.exists)
    /\ IF find_youtube_methods(gfs.exists) = <<>>
       THEN /\ glog' = glog \o <<<<"ERROR: No YouTube method scripts found">>,
                                  <<"==broken==">>>>
            /\ gpc' = "returned" /\ mp' = mp
       ELSE /\ mp' = 1 /\ gpc' = "inprocess" /\ glog' = glog
    /\ UNCHANGED <<gfs, out_path, parsed_bpm, summary, tempo_val>>
    /\ UNCHANGED <<tempoVars, splitterVars, pickerVars>>

\* try_one_method up to the in-process call; main's success branch when it
\* returns a path
TryInProcess ==
    /\ gpc = "inprocess"
    /\ IF gfs.yields[yt_methods[mp]] = "inprocess"
       THEN /\ out_path' = OutputOf(yt_methods[mp])
            /\ glog' = glog \o <<<<"Selected downloader", yt_methods[mp]>>, <<"SUCCESS">>>>
            /\ gpc' = "returned"
       ELSE /\ glog' = Append(glog, <<"Selected downloader", yt_methods[mp]>>)
            /\ gpc' = "cli" /\ out_path' = out_path
    /\ UNCHANGED <<gfs, yt_methods, mp, parsed_bpm, summary, tempo_val>>
    /\ UNCHANGED <<tempoVars, splitterVars, pickerVars>>

\* try_one_method from the CLI fallback on, and main's loop around it
RunMethodCli ==
    /\ gpc = "cli"
    /\ IF gfs.yields[yt_methods[mp]] = "cli"
       THEN /\ out_path' = OutputOf(yt_methods[mp])
            /\ glog' = glog \o <<<<"Falling back to CLI">>, <<"SUCCESS">>>>
            /\ gpc' = "returned" /\ mp' = mp
       ELSE IF mp < Len(yt_methods)
       THEN /\ glog' = Append(glog, <<"Falling back to CLI">>)
            /\ mp' = mp + 1 /\ gpc' = "inprocess" /\ out_path' = out_path
       ELSE /\ glog' = glog \o <<<<"Falling back to CLI">>,
                                  <<"ERROR: All YouTube methods failed.">>, <<"==broken==">>>>
            /\ gpc' = "returned" /\ mp' = mp /\ out_path' = out_path
    /\ UNCHANGED <<gfs, yt_methods, parsed_bpm, summary, tempo_val>>
    /\ UNCHANGED <<tempoVars, splitterVars, pickerVars>>

SpecGetAudio == InitGetAudio /\ [][FindMethods \/ TryInProcess \/ RunMethodCli]_vars

-----------------------------------------------------------------------------
(* getaudiofile2.py writing the selection file while the polling loop of   *)
(* startaisplitter.py reads it.  A path is text in the tokens above.       *)

MaxWaited == 5   \* polls before the timeout, standing for 600 s / 0.4 s

\* Files the picker can list: song.wav, 'my song.wav', and with show-all on a
\* file whose name ends in a blank or in a double quote.
PickerPaths ==
    {<<<<"/">>, <<"Downloads">>, <<"/">>, <<"song.wav">>>>,
     <<<<"/">>, <<"Downloads">>, <<"/">>, <<"my">>, SP, <<"song.wav">>>>,
     <<<<"/">>, <<"Downloads">>, <<"/">>, <<"take">>, SP, <<"1">>, SP>>,
     <<<<"/">>, <<"Downloads">>, <<"/">>, <<"take">>, <<"\"">>>>}

\* The stale file was removed, the picker window is open, the loop starts.
InitPicker ==
    /\ chosen_abs \in PickerPaths
    /\ temp_file = None /\ wpc = "open" /\ ppc = "exists" /\ waited = 0
    /\ pc = "off" /\ call = None /\ ret = None
    /\ NotRunning /\ SplitterIdle /\ GetAudioIdle

\* write_selection: open(temp_path, "w") creates the file empty; write, flush
\* and fsync put the whole path (shorter than the stream's buffer) in it with
\* one write; or the user quits the picker and nothing is written.
WriteSelection ==
    /\ \/ wpc = "open" /\ temp_file' = <<>> /\ wpc' = "write"
       \/ wpc = "write" /\ temp_file' = chosen_abs /\ wpc' = "returned"
       \/ wpc = "open" /\ temp_file' = temp_file /\ wpc' = "canceled"
    /\ UNCHANGED <<chosen_abs, ppc, waited>>
    /\ UNCHANGED <<tempoVars, splitterVars, scriptVars>>

\* The polling loop, one system call of read_candidate at a time: exists,
\* getsize, read with the strips; a poll that finds nothing sleeps and counts.
ReadCandidate ==
    /\ \/ /\ ppc = "exists" /\ waited < MaxWaited
          /\ IF temp_file # None
             THEN ppc' = "getsize" /\ waited' = waited
             ELSE ppc' = "exists" /\ waited' = waited + 1
          /\ selected_path' = selected_path
       \/ /\ ppc = "getsize"
          /\ IF temp_file # None /\ Len(temp_file) > 0
             THEN ppc' = "read" /\ waited' = waited
             ELSE ppc' = "exists" /\ waited' = waited + 1
          /\ selected_path' = selected_path
       \/ /\ ppc = "read" /\ temp_file # None
          /\ LET raw == StripChars(temp_file, {SP, NL})
                 stripped == StripChars(StripChars(raw, {SP, NL}), {<<"\"">>})
             IN  IF raw # <<>> /\ stripped # <<>>
                 THEN selected_path' = stripped /\ ppc' = "accepted" /\ waited' = waited
                 ELSE /\ selected_path' = selected_path
                      /\ ppc' = "exists" /\ waited' = waited + 1
       \/ /\ ppc = "exists" /\ waited >= MaxWaited
          /\ ppc' = "timeout" /\ waited' = waited /\ selected_path' = selected_path
    /\ UNCHANGED <<chosen_abs, temp_file, wpc>>
    /\ UNCHANGED <<choice, fs, spc, splitter_type, mode_line, wav_input, cp_argv, cpc,
                   cp_args, wav_path, mode_arg, handed, returncode, pty_out, pty_in,
                   sent_wav, sent_mode, answers>>
    /\ UNCHANGED <<tempoVars, scriptVars>>

SpecPicker == InitPicker /\ [][WriteSelection \/ ReadCandidate]_vars

-----------------------------------------------------------------------------
(* Direct calls of the pure helpers.                                       *)

MaxBpm == 200    \* half_double_normalize is called with bpm = n or n/3, n <= MaxBpm

NormBpms == {R(n, d) : n \in 1..MaxBpm, d \in {1, 3}} \cup {NaN}

NormPrefers ==
    {<<None, None>>, <<None, <<80, 1>>>>, <<<<70, 1>>, None>>,
     <<<<85, 1>>, <<95, 1>>>>, <<<<20, 1>>, <<25, 1>>>>, <<<<40, 1>>, <<80, 1>>>>,
     <<<<30, 1>>, <<100, 1>>>>, <<<<100, 1>>, <<80, 1>>>>, <<<<90, 1>>, <<90, 1>>>>}

InitNorm ==
    /\ pc = "call"
    /\ call \in [bpm : NormBpms, prefer : NormPrefers, order : Orders]
    /\ ret = None
    /\ NotRunning
    /\ SplitterIdle /\ GetAudioIdle /\ PickerIdle

CallNormalize ==
    /\ pc = "call"
    /\ ret' = half_double_normalize(call.bpm, call.prefer[1], call.prefer[2], call.order)
    /\ pc' = "returned"
    /\ UNCHANGED <<argv, args, audio_exists, env_encoding, env_fail, env_sr, env_temps, env_tg,
                   env_order, y, sr_loaded, candidates, bpms, strengths, lags, pick_bpm,
                   agg_value, stdout, stderr, rc, run, report1, call>>
    /\ UNCHANGED nonTempoVars

SpecNorm == InitNorm /\ [][CallNormalize]_vars

\* half_double_normalize called once more on its own result, with the same range.
CallNormalizeAgain ==
    /\ pc = "returned"
    /\ report1' = call.bpm
    /\ call' = [call EXCEPT !.bpm = ret]
    /\ ret' = half_double_normalize(ret, call.prefer[1], call.prefer[2], call.order)
    /\ pc' = "returned again"
    /\ UNCHANGED <<argv, args, audio_exists, env_encoding, env_fail, env_sr, env_temps, env_tg,
                   env_order, y, sr_loaded, candidates, bpms, strengths, lags, pick_bpm,
                   agg_value, stdout, stderr, rc, run>>
    /\ UNCHANGED nonTempoVars

NextNormAgain == CallNormalize \/ CallNormalizeAgain

SpecNormAgain == InitNorm /\ [][NextNormAgain]_vars

MinPriorBpm == 50    \* apply_gaussian_prior is called on two-entry profiles with
MaxPriorBpm == 110   \* whole BPMs in MinPriorBpm..MaxPriorBpm

PriorBpms == {<<n, 1>> : n \in MinPriorBpm..MaxPriorBpm}

PriorPrefers ==
    {<<None, None>>, <<<<40, 1>>, <<80, 1>>>>, <<<<70, 1>>, <<100, 1>>>>,
     <<<<80, 1>>, <<81, 1>>>>, <<<<100, 1>>, <<80, 1>>>>}

PriorStrengths == {<<10000, 10000>>, <<5000, 10000>>, <<0, 10000>>}

InitPrior ==
    /\ pc = "call"
    /\ call \in [bpms : [1..2 -> PriorBpms], strengths : PriorStrengths,
                  prefer : PriorPrefers]
    /\ ret = None
    /\ NotRunning
    /\ SplitterIdle /\ GetAudioIdle /\ PickerIdle

CallPrior ==
    /\ pc = "call"
    /\ ret' = apply_gaussian_prior(call.bpms, call.strengths, call.prefer[1], call.prefer[2])
    /\ pc' = "returned"
    /\ UNCHANGED <<argv, args, audio_exists, env_encoding, env_fail, env_sr, env_temps, env_tg,
                   env_order, y, sr_loaded, candidates, bpms, strengths, lags, pick_bpm,
                   agg_value, stdout, stderr, rc, run, report1, call>>
    /\ UNCHANGED nonTempoVars

SpecPrior == InitPrior /\ [][CallPrior]_vars

MaxAggLen == 3   \* candidate lists of up to MaxAggLen values, and the example list

ExampleList == <<R(11820, 100), R(11900, 100), R(23640, 100), R(12010, 100), R(11950, 100)>>

AggValues == {<<80, 1>>, <<90, 1>>, <<160, 1>>, NaN}

AggLists ==
    SeqsUpTo(AggValues, MaxAggLen)
    \cup {[i \in 1..Len(ExampleList) |-> ExampleList[p[i]]] :
              p \in Permutations(1..Len(ExampleList))}

InitAgg ==
    /\ pc = "call"
    /\ call \in [aggregate : AggregateModes, candidates : AggLists]
    /\ ret = None
    /\ NotRunning
    /\ SplitterIdle /\ GetAudioIdle /\ PickerIdle

CallAggregate ==
    /\ pc = "call"
    /\ ret' = Aggregate(call.aggregate, call.candidates)
    /\ pc' = "returned"
    /\ UNCHANGED <<argv, args, audio_exists, env_encoding, env_fail, env_sr, env_temps, env_tg,
                   env_order, y, sr_loaded, candidates, bpms, strengths, lags, pick_bpm,
                   agg_value, stdout, stderr, rc, run, report1, call>>
    /\ UNCHANGED nonTempoVars

SpecAgg == InitAgg /\ [][CallAggregate]_vars

-----------------------------------------------------------------------------
(* startaisplitter.py from its splitter prompt on, and the checkpoint.py it *)
(* runs under a PTY.  A path is <<folder, base name, extension>>; a line of *)
(* text and a command-line word are tuples as well.  The output of          *)
(* checkpoint.py is a sequence of pieces of text; a read from the PTY       *)
(* master returns any non-empty prefix of what is waiting.                  *)

SelectedPaths == {<<"picked", "song", ".wav">>, <<"picked", "song", ".mp3">>}
Choices       == {"1", "2", ""}
ManifestWav   == <<"stems", "last", ".wav">>
DownloadsWav  == <<"Downloads", "recent", ".wav">>

Machines ==
    [ffmpeg : {"ok", "failed", "missing"},
     manifest : {None, ManifestWav, <<"stems", "last", ".mp3">>},
     downloads : {None, DownloadsWav}, stems_root : BOOLEAN, splitter_ok : BOOLEAN,
     scripts : SUBSET {"basicsplitter.py", "splitter.py"}]

InitSplitter ==
    /\ pc = "off" /\ call = None /\ ret = None
    /\ NotRunning /\ GetAudioIdle /\ PickerIdle
    /\ selected_path \in SelectedPaths /\ choice \in Choices /\ fs \in Machines
    /\ spc = "prompt"
    /\ splitter_type = "" /\ mode_line = None /\ wav_input = None
    /\ cp_argv = None /\ cpc = "off" /\ cp_args = None /\ wav_path = None
    /\ mode_arg = None /\ handed = None /\ returncode = NoRc
    /\ pty_out = <<>> /\ pty_in = <<>> /\ sent_wav = FALSE /\ sent_mode = FALSE
    /\ answers = <<>>

\* choice = prompt_tty('Enter 1 or 2: '); anything else defaults to "1"
ChooseSplitter ==
    /\ spc = "prompt"
    /\ LET c == IF choice \in {"1", "2"} THEN choice ELSE "1"
           t == IF c = "1" THEN "basic" ELSE "fullsplitter"
       IN  /\ splitter_type' = t
           /\ mode_line' = IF t = "basic" THEN <<"1">> ELSE <<"2">>
    /\ spc' = "ensure"
    /\ UNCHANGED <<selected_path, choice, fs, wav_input, cp_argv, cpc, cp_args, wav_path,
                   mode_arg, handed, returncode, pty_out, pty_in, sent_wav, sent_mode,
                   answers>>
    /\ UNCHANGED nonSplitterVars

\* ensure_wav: a .wav is kept; anything else is converted to .tmp/<base>.wav, or
\* kept as it is when ffmpeg is missing or fails
ensure_wav(p, ffmpeg) ==
    IF p[3] = ".wav" THEN p
    ELSE IF ffmpeg = "ok" THEN <<".tmp", p[2], ".wav">>
    ELSE p

EnsureWav ==
    /\ spc = "ensure"
    /\ wav_input' = ensure_wav(selected_path, fs.ffmpeg)
    /\ spc' = "launch"
    /\ UNCHANGED <<selected_path, choice, fs, splitter_type, mode_line, cp_argv, cpc,
                   cp_args, wav_path, mode_arg, handed, returncode, pty_out, pty_in,
                   sent_wav, sent_mode, answers>>
    /\ UNCHANGED nonSplitterVars

\* args = [py, checkpoint_py, "--input", wav_input, "--splitter", splitter_type];
\* run_checkpoint_via_pty up to its loop
Launch ==
    /\ spc = "launch"
    /\ cp_argv' = <<<<"--input">>, wav_input, <<"--splitter">>, <<splitter_type>>>>
    /\ cpc' = "main"
    /\ sent_wav' = FALSE /\ sent_mode' = FALSE
    /\ spc' = "loop"
    /\ UNCHANGED <<selected_path, choice, fs, splitter_type, mode_line, wav_input,
                   cp_args, wav_path, mode_arg, handed, returncode, pty_out, pty_in,
                   answers>>
    /\ UNCHANGED nonSplitterVars

\* What checkpoint.py prints, piece by piece.
Banner     == "[checkpoint] CHECKPOINT"
UsingWav   == "[checkpoint] Using WAV"
WavPrompt  == <<"[checkpoint] Paste absolute ", "path to a .wav (or leave blank to cancel): ">>
ModePrompt == <<"CHECKPOINT 1) Basic 2) Complex ", "Type 1 ", "or 2, then press Enter.", "> ">>
Reprompt   == <<"Please enter 1 or 2.", "> ">>
RunBanner  == "[checkpoint] RUN SPLITTER"

\* rx.search(text) for a text that spans several pieces: the pieces must all be
\* in the chunk, one after the other
Contains(chunk, text) ==
    \E i \in 1..(Len(chunk) - Len(text) + 1) : SubSeq(chunk, i, i + Len(text) - 1) = text

\* r"Paste absolute path to a \.wav" or r"paste.*path.*wav"
PROMPT_PATTERNS_WAV(chunk) == Contains(chunk, WavPrompt)

\* r"Type\s+1\s+or\s+2"
TypeOneOrTwo(chunk) == Contains(chunk, SubSeq(ModePrompt, 2, 3))

\* r"CHECKPOINT" (ignoring case) or r"Type\s+1\s+or\s+2"
PROMPT_PATTERNS_MODE(chunk) ==
    \/ \E i \in 1..Len(chunk) :
           chunk[i] \in {Banner, UsingWav, WavPrompt[1], ModePrompt[1], RunBanner}
    \/ TypeOneOrTwo(chunk)

\* One round of the loop with data on the master: chunk = os.read(master_fd, 4096),
\* then the two 'detect & answer once' blocks.
PtyRead ==
    /\ spc = "loop" /\ pty_out # <<>>
    /\ \E k \in 1..Len(pty_out) :
          LET chunk       == SubSeq(pty_out, 1, k)
              answer_wav  == ~sent_wav /\ PROMPT_PATTERNS_WAV(chunk)
              answer_mode == ~sent_mode /\ PROMPT_PATTERNS_MODE(chunk)
                                 /\ TypeOneOrTwo(chunk)
          IN  /\ pty_out' = SubSeq(pty_out, k + 1, Len(pty_out))
              /\ pty_in' = pty_in \o (IF answer_wav THEN <<wav_input>> ELSE <<>>)
                                  \o (IF answer_mode THEN <<mode_line>> ELSE <<>>)
              /\ answers' = answers \o (IF answer_wav THEN <<"wav">> ELSE <<>>)
                                    \o (IF answer_mode THEN <<"mode">> ELSE <<>>)
              /\ sent_wav' = (sent_wav \/ answer_wav)
              /\ sent_mode' = (sent_mode \/ answer_mode)
    /\ UNCHANGED <<selected_path, choice, fs, spc, splitter_type, mode_line, wav_input,
                   cp_argv, cpc, cp_args, wav_path, mode_arg, handed, returncode>>
    /\ UNCHANGED nonSplitterVars

\* if proc.poll() is not None: return proc.returncode
PtyReturn ==
    /\ spc = "loop" /\ cpc = "exited"
    /\ spc' = "done"
    /\ UNCHANGED <<selected_path, choice, fs, splitter_type, mode_line, wav_input,
                   cp_argv, cpc, cp_args, wav_path, mode_arg, handed, returncode,
                   pty_out, pty_in, sent_wav, sent_mode, answers>>
    /\ UNCHANGED nonSplitterVars

StartAiSplitter == ChooseSplitter \/ EnsureWav \/ Launch \/ PtyRead \/ PtyReturn

\* argparse with --wav and --mode only (long options may be abbreviated); what
\* parse_known_args does not know it leaves aside
OptValue(words, names) ==
    LET at == {i \in 1..(Len(words) - 1) : words[i] \in names}
    IN  IF at = {} THEN None
        ELSE words[(CHOOSE i \in at : \A j \in at : j <= i) + 1]

parse_known_args(words) ==
    [wav  |-> OptValue(words, {<<"--wav">>, <<"--wa">>, <<"--w">>}),
     mode |-> OptValue(words, {<<"--mode">>, <<"--mod">>, <<"--mo">>, <<"--m">>})]

\* p.exists() and p.suffix.lower() == ".wav" (no file exists in the folder
\* "nowhere", every other path of the model exists)
IsWav(p) == Len(p) = 3 /\ p[3] = ".wav" /\ p[1] # "nowhere"

\* parse_known_args, section("CHECKPOINT"), find_stems_root
CpMain ==
    /\ cpc = "main"
    /\ cp_args' = parse_known_args(cp_argv)
    /\ pty_out' = pty_out \o <<Banner>>
    /\ IF fs.stems_root
       THEN cpc' = "wav" /\ UNCHANGED returncode
       ELSE cpc' = "exited" /\ returncode' = 2
    /\ UNCHANGED <<selected_path, choice, fs, spc, splitter_type, mode_line, wav_input,
                   cp_argv, wav_path, mode_arg, handed, pty_in, sent_wav, sent_mode,
                   answers>>
    /\ UNCHANGED nonSplitterVars

\* WAV resolution: --wav, then the last_download manifest, then the newest recent
\* .wav in Downloads, then the prompt
CpResolveWav ==
    /\ cpc = "wav"
    /\ LET from_arg == IF cp_args.wav # None /\ IsWav(cp_args.wav)
                       THEN cp_args.wav ELSE None
           found    == IF from_arg # None THEN from_arg
                       ELSE IF fs.manifest # None THEN fs.manifest
                       ELSE fs.downloads
       IN  IF found # None
           THEN /\ wav_path' = found
                /\ pty_out' = pty_out \o <<UsingWav>>
                /\ cpc' = "mode"
           ELSE /\ wav_path' = None
                /\ pty_out' = pty_out \o WavPrompt
                /\ cpc' = "wav_prompt"
    /\ UNCHANGED <<selected_path, choice, fs, spc, splitter_type, mode_line, wav_input,
                   cp_argv, cp_args, mode_arg, handed, returncode, pty_in, sent_wav,
                   sent_mode, answers>>
    /\ UNCHANGED nonSplitterVars

\* prompt_for_wav: s = sys.stdin.readline().strip(); return 3 without a valid .wav
CpReadWav ==
    /\ cpc = "wav_prompt" /\ pty_in # <<>>
    /\ LET s == Head(pty_in)
       IN  IF IsWav(s)
           THEN wav_path' = s /\ cpc' = "mode" /\ UNCHANGED returncode
           ELSE wav_path' = None /\ cpc' = "exited" /\ returncode' = 3
    /\ pty_in' = Tail(pty_in)
    /\ UNCHANGED <<selected_path, choice, fs, spc, splitter_type, mode_line, wav_input,
                   cp_argv, cp_args, mode_arg, handed, pty_out, sent_wav, sent_mode,
                   answers>>
    /\ UNCHANGED nonSplitterVars

\* Mode resolution: --mode 1|basic|2|complex, else choose_mode_interactive prints
\* its menu and prompt
CpResolveMode ==
    /\ cpc = "mode"
    /\ LET m == cp_args.mode
           from_arg == IF m \in {<<"1">>, <<"basic">>} THEN <<"1">>
                       ELSE IF m \in {<<"2">>, <<"complex">>} THEN <<"2">>
                       ELSE None
       IN  IF from_arg # None
           THEN mode_arg' = from_arg /\ cpc' = "run" /\ UNCHANGED pty_out
           ELSE mode_arg' = None /\ cpc' = "mode_prompt"
                    /\ pty_out' = pty_out \o ModePrompt
    /\ UNCHANGED <<selected_path, choice, fs, spc, splitter_type, mode_line, wav_input,
                   cp_argv, cp_args, wav_path, handed, returncode, pty_in, sent_wav,
                   sent_mode, answers>>
    /\ UNCHANGED nonSplitterVars

\* choose_mode_interactive's loop: val = sys.stdin.readline().strip()
CpReadMode ==
    /\ cpc = "mode_prompt" /\ pty_in # <<>>
    /\ LET val == Head(pty_in)
       IN  IF val \in {<<"1">>, <<"2">>}
           THEN mode_arg' = val /\ cpc' = "run" /\ UNCHANGED pty_out
           ELSE pty_out' = pty_out \o Reprompt /\ UNCHANGED <<mode_arg, cpc>>
    /\ pty_in' = Tail(pty_in)
    /\ UNCHANGED <<selected_path, choice, fs, spc, splitter_type, mode_line, wav_input,
                   cp_argv, cp_args, wav_path, handed, returncode, sent_wav, sent_mode,
                   answers>>
    /\ UNCHANGED nonSplitterVars

\* The script of the mode must exist (else return 2);
\* rc = run_stream([sys.executable, str(target), str(wav_path)], ...), 4 when rc != 0
CpRunSplitter ==
    /\ cpc = "run"
    /\ LET target == IF mode_arg = <<"1">> THEN "basicsplitter.py" ELSE "splitter.py"
       IN  IF target \in fs.scripts
           THEN /\ handed' = <<target, wav_path>>
                /\ pty_out' = pty_out \o <<RunBanner>>
                /\ returncode' = IF fs.splitter_ok THEN 0 ELSE 4
           ELSE /\ handed' = handed
                /\ pty_out' = pty_out
                /\ returncode' = 2
    /\ cpc' = "exited"
    /\ UNCHANGED <<selected_path, choice, fs, spc, splitter_type, mode_line, wav_input,
                   cp_argv, cp_args, wav_path, mode_arg, pty_in, sent_wav, sent_mode,
                   answers>>
    /\ UNCHANGED nonSplitterVars

Checkpoint ==
    CpMain \/ CpResolveWav \/ CpReadWav \/ CpResolveMode \/ CpReadMode \/ CpRunSplitter

NextSplitter == StartAiSplitter \/ Checkpoint

\* Both processes keep running: the read loop polls every 0.2 s, checkpoint.py runs
\* until it waits for a line.
SpecSplitter ==
    InitSplitter /\ [][NextSplitter]_vars /\ WF_vars(StartAiSplitter) /\ WF_vars(Checkpoint)

\* checkpoint.py started from a terminal: its command line has --wav with an
\* existing .wav, an .mp3 or a .wav that does not exist, or no --wav, and
\* --mode or not; the user has typed up to two lines ahead.
InitCheckpoint ==
    /\ pc = "off" /\ call = None /\ ret = None
    /\ NotRunning /\ GetAudioIdle /\ PickerIdle
    /\ selected_path = None /\ choice = "" /\ spc = "off"
    /\ splitter_type = "" /\ mode_line = None /\ wav_input = None
    /\ fs \in {m \in Machines : m.ffmpeg = "ok"}
    /\ \E wav \in {<<>>, <<<<"--wav">>, <<"given", "song", ".wav">>>>,
                    <<<<"--wav">>, <<"given", "song", ".mp3">>>>,
                    <<<<"--wav">>, <<"nowhere", "song", ".wav">>>>},
          mode \in {<<>>, <<<<"--mode">>, <<"complex">>>>, <<<<"--mode">>, <<"3">>>>} :
          cp_argv = wav \o mode
    /\ pty_in \in SeqsUpTo({<<"typed", "song", ".wav">>, <<"typed", "notes", ".txt">>,
                             <<"1">>, <<"2">>, <<"x">>}, 2)
    /\ cpc = "main" /\ cp_args = None /\ wav_path = None
    /\ mode_arg = None /\ handed = None /\ returncode = NoRc
    /\ pty_out = <<>> /\ sent_wav = FALSE /\ sent_mode = FALSE /\ answers = <<>>

SpecCheckpoint == InitCheckpoint /\ [][Checkpoint]_vars

-----------------------------------------------------------------------------
(* Properties.                                                             *)

\* b * 2^k for k = -3..3, written out
Pow2 == <<1, 2, 4, 8>>
Generated(b) == {R(b[1] * Pow2[k + 1], b[2]) : k \in 0..3}
                    \cup {R(b[1], b[2] * Pow2[k + 1]) : k \in 0..3}

BothBounds(prefer) == prefer[1] # None /\ prefer[2] # None

GeneratedInRange(b, prefer) ==
    {c \in Generated(b) : RLe(prefer[1], c) /\ RLe(c, prefer[2])}

\* C1: with a preferred range, when some generated value b*2^k (k = -3..3) lies in
\* [min, max], half_double_normalize returns one of the in-range values and no
\* in-range value is strictly nearer to the centre; 184 with [85, 95] gives 92.
C1_NearestInRange ==
    (pc = "returned" /\ BothBounds(call.prefer) /\ call.bpm # NaN
        /\ GeneratedInRange(call.bpm, call.prefer) # {})
    => /\ ret \in GeneratedInRange(call.bpm, call.prefer)
       /\ \A c \in GeneratedInRange(call.bpm, call.prefer) :
              ~Nearer(c, ret, call.prefer[1], call.prefer[2])
       /\ (call.bpm = <<184, 1>> /\ call.prefer = <<<<85, 1>>, <<95, 1>>>>)
              => ret = <<92, 1>>

C1_Witness ==
    /\ pc = "returned"
    /\ call.bpm = <<184, 1>> /\ call.prefer = <<<<85, 1>>, <<95, 1>>>>
    /\ ret = <<92, 1>>

NoRange == args.prefer_min = None \/ args.prefer_max = None

\* C2: without a preferred range (prefer_min or prefer_max missing) the
\* normalization step leaves the picked BPM as it is, with normalization on or off.
C2_NoRangeNoOp ==
    [][(pc = "normalize" /\ NoRange) => pick_bpm' = pick_bpm]_vars

C2_Witness ==
    /\ pc = "aggregate"
    /\ args.normalize
    /\ args.prefer_min = None /\ args.prefer_max # None
    /\ pick_bpm = <<160, 1>>

\* The pipeline positions at which the profile and the raw pick are in place.
Picked == pc = "normalize"

MaxWeighted(i) == \A j \in 1..Len(bpms) : Weighted[j] <= Weighted[i]

\* C3 as stated: the picked BPM is that of the greatest (possibly weighted)
\* strength, and among entries sharing the greatest strength the lowest BPM.
C3_TieLowestBpm ==
    (Picked /\ Len(bpms) > 0)
    => \E i \in 1..Len(bpms) :
           /\ MaxWeighted(i)
           /\ pick_bpm = bpms[i]
           /\ \A j \in 1..Len(bpms) : MaxWeighted(j) => RLe(bpms[i], bpms[j])

\* C3 amended: the picked BPM is that of the greatest (possibly weighted) strength,
\* and among entries sharing the greatest strength the first in profile order,
\* which is ascending lag: the highest BPM among the tied entries.
C3_TieFirstInProfile ==
    (Picked /\ Len(bpms) > 0)
    => \E i \in 1..Len(bpms) :
           /\ MaxWeighted(i)
           /\ pick_bpm = bpms[i]
           /\ \A j \in 1..Len(bpms) :
                  MaxWeighted(j) => (lags[i] <= lags[j] /\ RLe(bpms[j], bpms[i]))

C3_Witness ==
    /\ Picked /\ Len(bpms) >= 2
    /\ args.prefer_min # None /\ args.prefer_max # None
    /\ \E i, j \in 1..Len(bpms) :
           i < j /\ MaxWeighted(i) /\ MaxWeighted(j) /\ Weighted[i] > 0
                 /\ pick_bpm = bpms[i]

InvalidRange(prefer) == BothBounds(prefer) /\ RLe(prefer[2], prefer[1])

\* C4: a preferred range whose upper bound is not above its lower bound stops the
\* run with an error before the audio file is loaded: the file is never loaded,
\* no report is printed and the exit status is not 0.  (Stated for command lines
\* whose hop length and candidate count are positive.)
C4_InvalidRangeRejected ==
    (InvalidRange(argv.prefer) /\ argv.hop_length > 0 /\ argv.topn > 0)
    => /\ y = "unset"
       /\ stdout = <<>>
       /\ pc = "done" => rc # 0

\* No usable onset structure: every tempogram strength of the file is zero.
Silent == env_tg # <<>> /\ \A i \in 1..Len(env_tg) : env_tg[i] = 0

\* C5: for a waveform with no usable onset structure (and no NaN in what the
\* library computes from it) the run completes without raising and returns an
\* empty candidate list and aggregate 0.00.
C5_SilentGivesUnknown ==
    (pc = "print" /\ Silent /\ ~HasNaN(env_temps) /\ args.aggregate = "median")
    => candidates = <<>> /\ agg_value = <<0, 1>>

\* C6: every BPM of the profile lies in [bpm_min, bpm_max] and comes from a lag
\* L >= 1 by bpm = 60 * sample_rate / (hop_length * L); BPMs and strengths are
\* parallel: same length, and index k holds the strength of the lag of bpms[k].
C6_ProfileInRange ==
    (pc \in {"pick", "normalize", "aggregate", "print"})
    => /\ Len(bpms) = Len(strengths) /\ Len(bpms) = Len(lags)
       /\ \A k \in 1..Len(bpms) :
              /\ lags[k] >= 1 /\ lags[k] <= MaxLag
              /\ bpms[k][1] * args.hop_length * lags[k] = 60 * sr_loaded * bpms[k][2]
              /\ bpm_min * bpms[k][2] <= bpms[k][1]
              /\ bpms[k][1] <= bpm_max * bpms[k][2]
              /\ strengths[k] = env_tg[lags[k] + 1]
       /\ \A k \in 1..(Len(bpms) - 1) : lags[k] < lags[k + 1]

C6_Witness ==
    /\ pc = "pick"
    /\ Len(bpms) = 2
    /\ lags = <<2, 3>>
    /\ bpms = <<<<160, 1>>, <<320, 3>>>>
    /\ strengths = <<0, 10000>>

IsOrderStat(s, k, v) ==
    /\ \E i \in 1..Len(s) : s[i] = v
    /\ Cardinality({i \in 1..Len(s) : RLt(s[i], v)}) < k
    /\ Cardinality({i \in 1..Len(s) : RLe(s[i], v)}) >= k

IsPermutationOfExample(s) ==
    /\ Len(s) = Len(ExampleList)
    /\ \A i \in 1..Len(s) :
           Cardinality({j \in 1..Len(s) : s[j] = s[i]})
               = Cardinality({j \in 1..Len(s) : ExampleList[j] = s[i]})
    /\ \A i \in 1..Len(s) : \E j \in 1..Len(s) : s[j] = ExampleList[i]

\* C9: in median mode the aggregate is the median of the candidate list in whatever
\* order the candidates come: the middle element of the sorted list for an odd
\* length (the mean of the two middle ones for an even length); the list
\* [118.20, 119.00, 236.40, 120.10, 119.50] gives 119.50 in any order.
C9_MedianOrderFree ==
    (pc = "returned" /\ call.aggregate = "median"
        /\ Len(call.candidates) > 0 /\ ~HasNaN(call.candidates))
    => LET s == call.candidates
           n == Len(s)
       IN  /\ n % 2 = 1 => IsOrderStat(s, (n + 1) \div 2, ret)
           /\ n % 2 = 0 => \E lo, hi \in {s[i] : i \in 1..n} :
                               /\ IsOrderStat(s, n \div 2, lo)
                               /\ IsOrderStat(s, n \div 2 + 1, hi)
                               /\ ret = Half(RAdd(lo, hi))
           /\ IsPermutationOfExample(s) => (ret = <<239, 2>> /\ Fmt2(ret) = <<119, 50>>)

C9_Witness ==
    /\ pc = "returned" /\ call.aggregate = "median"
    /\ call.candidates = ExampleList
    /\ ret = <<239, 2>>

Valid(c) == c # NaN /\ c[1] > 0

\* C10: candidate generation stops once the configured number of valid (finite,
\* positive) candidates is collected: the pooled list never holds more than that
\* number, and it holds valid candidates only.
C10_AtMostTopnValid ==
    (pc \in {"tempogram", "pick", "normalize", "aggregate", "print"})
    => /\ Len(candidates) <= args.topn
       /\ \A i \in 1..Len(candidates) : Valid(candidates[i])

BadCountOrHop(v) == v.topn <= 0 \/ v.hop_length <= 0

\* C11: a candidate count <= 0 or a hop length <= 0 stops the run with an error
\* before anything is loaded or computed: the audio file is never loaded, the
\* value is never clamped or used to print a report, and the exit status is not 0.
C11_BadCountOrHopRejected ==
    BadCountOrHop(argv)
    => /\ y = "unset"
       /\ candidates = None
       /\ stdout = <<>>
       /\ pc = "done" => rc # 0

Finite(x) == x # NaN

\* C12: no non-finite value reaches the caller: the candidates, the aggregate and
\* the picked tempo of the result are all finite, whatever the library computed
\* from the file (a NaN among its estimates is replaced by zero).  (Stated for
\* command lines whose hop length and candidate count are positive.)
C12_ResultFinite ==
    (pc = "print" /\ ~BadCountOrHop(argv))
    => /\ \A i \in 1..Len(candidates) : Finite(candidates[i])
       /\ agg_value # None => Finite(agg_value)
       /\ Finite(pick_bpm)

NoValidEstimate == \A i \in 1..Len(env_temps) : ~Valid(env_temps[i])

\* C13: when the tempo estimation yields no finite positive candidate, the
\* candidate list is either one fallback estimate replicated to fill the configured
\* count (args.topn equal valid entries) or, when that estimate fails too, empty
\* with a zero aggregate.  (Stated for command lines whose hop length and
\* candidate count are positive.)
C13_FallbackReplicated ==
    (pc = "print" /\ ~BadCountOrHop(argv) /\ NoValidEstimate)
    => \/ /\ Len(candidates) = args.topn
          /\ \A i \in 1..Len(candidates) :
                 Valid(candidates[i]) /\ candidates[i] = candidates[1]
       \/ /\ candidates = <<>>
          /\ agg_value # None => agg_value = <<0, 1>>

\* C14: when the tempogram strength profile is empty, the raw pick (before octave
\* normalization) is the first candidate of the candidate list; with a non-empty
\* profile it is a BPM of the profile, one of greatest weighted strength.
C14_EmptyProfileFirstCandidate ==
    Picked
    => /\ Len(bpms) = 0 => pick_bpm = candidates[1]
       /\ Len(bpms) > 0 => \E i \in 1..Len(bpms) : MaxWeighted(i) /\ pick_bpm = bpms[i]

C14_Witness ==
    /\ Picked
    /\ bpms = <<>>
    /\ candidates = <<<<80, 1>>, NaN>>
    /\ pick_bpm = <<80, 1>>

\* C15: when no preferred range is supplied (prefer_min or prefer_max missing),
\* apply_gaussian_prior returns the strengths unmodified (same values, order and
\* length), and the raw pick is the BPM of the first greatest raw strength.
C15_NoRangeRawProfile ==
    (pc \in {"pick", "normalize"} /\ NoRange)
    => /\ Weighted = strengths
       /\ (pc = "normalize" /\ Len(bpms) > 0)
          => \E i \in 1..Len(bpms) :
                 /\ pick_bpm = bpms[i]
                 /\ \A j \in 1..Len(bpms) : strengths[j] <= strengths[i]
                 /\ \A j \in 1..(i - 1) : strengths[j] < strengths[i]

C15_Witness ==
    /\ pc = "normalize"
    /\ args.prefer_min = None /\ args.prefer_max = <<80, 1>>
    /\ bpms = <<<<80, 1>>, <<40, 1>>>>
    /\ strengths = <<0, 10000>>
    /\ pick_bpm = <<40, 1>>

\* C16: when the input path does not exist, main prints a diagnostic that names
\* the path and returns a non-zero status; the audio is never loaded, no analysis
\* step is taken, nothing is printed on standard output, and the run ends at the
\* existence test (no retry).
C16_MissingFileRejected ==
    ~audio_exists
    => /\ pc \in {"start", "exists", "done"}
       /\ y = "unset" /\ candidates = None /\ bpms = None /\ pick_bpm = None
       /\ env_fail = Unknown /\ env_sr = 0
       /\ stdout = <<>>
       /\ pc = "done" => (stderr = <<"File not found", audio_path>> /\ rc > 0)
       /\ pc # "done" => (stderr = <<>> /\ rc = NoRc)

C16_Witness ==
    /\ ~audio_exists /\ pc = "done"
    /\ stderr = <<"File not found", audio_path>>
    /\ rc = 2
    /\ y = "unset" /\ stdout = <<>>

\* C17: octave normalization touches only the picked tempo.  For the same file,
\* preferred range and other options, the run with normalization on and the run
\* with it off return the same candidate list, aggregate, sample rate, hop length
\* and frame rate; the picked tempo of the run with normalization off is the
\* argmax of the prior-weighted profile, and that of the run with normalization
\* on is half_double_normalize of that value.
C17_NormalizationOnlyPick ==
    (run = 2 /\ pc = "done" /\ rc = 0)
    => /\ report1[3] = 0
       /\ LET on  == IF args.normalize THEN Result ELSE report1[4]
              off == IF args.normalize THEN report1[4] ELSE Result
          IN  /\ on.candidates = off.candidates
              /\ on.aggregate = off.aggregate
              /\ on.sr = off.sr
              /\ on.hop_length = off.hop_length
              /\ on.frame_rate = off.frame_rate
              /\ Len(bpms) > 0
                 => \E i \in 1..Len(bpms) : MaxWeighted(i) /\ off.bpm = bpms[i]
              /\ on.bpm = half_double_normalize(off.bpm, args.prefer_min,
                                                args.prefer_max, env_order)

C17_Witness ==
    /\ run = 2 /\ pc = "done" /\ rc = 0
    /\ args.normalize
    /\ report1[4].bpm = <<160, 1>>
    /\ Result.bpm = <<80, 1>>
    /\ Result.candidates = report1[4].candidates
    /\ Result.candidates = <<<<80, 1>>, NaN>>

PrefersLines == {i \in 1..Len(stdout) : stdout[i][1] = "Prefers"}

\* C18: the printed report contains the 'Prefers' line exactly when both
\* prefer-min and prefer-max were supplied (with one bound or none it is absent);
\* the line appears once, shows the two bounds, and its normalization flag reads
\* 'on' exactly when normalization was not disabled.
C18_PrefersLine ==
    (pc = "done" /\ rc = 0)
    => /\ PrefersLines # {} <=> BothBounds(argv.prefer)
       /\ Cardinality(PrefersLines) <= 1
       /\ \A i \in PrefersLines :
              /\ stdout[i][2] = Fmt2(argv.prefer[1])
              /\ stdout[i][3] = Fmt2(argv.prefer[2])
              /\ stdout[i][4] = "on" <=> argv.normalize
              /\ stdout[i][4] = "off" <=> ~argv.normalize

C18_Witness ==
    /\ pc = "done" /\ rc = 0
    /\ argv.prefer = <<<<70, 1>>, <<100, 1>>>> /\ ~argv.normalize
    /\ stdout[3] = <<"Prefers", <<70, 0>>, <<100, 0>>, "off">>

C18_WitnessOneBound ==
    /\ pc = "done" /\ rc = 0
    /\ argv.prefer = <<<<70, 1>>, None>>
    /\ PrefersLines = {}

\* C19: the .wav checkpoint.py hands to the splitter script is the file selected
\* in the picker or its ffmpeg-converted .wav (the wav_input startaisplitter
\* launched it with), and the script is the one of the chosen mode, whatever
\* last_download manifest or recent .wav in Downloads exists.
C19_SelectedFileHanded ==
    handed # None
    => /\ handed[2] = wav_input
       /\ handed[2] \in {selected_path, <<".tmp", selected_path[2], ".wav">>}
       /\ handed[1] = IF choice = "2" THEN "splitter.py" ELSE "basicsplitter.py"

Written(what) == Cardinality({i \in 1..Len(answers) : answers[i] = what})

\* C20: under the PTY each of the two prompts is answered exactly once: once the
\* WAV-path prompt (or the 'Type 1 or 2' prompt) is in checkpoint's output its
\* answer gets written to the PTY, and no answer is written a second time,
\* however the output is split into read chunks.
C20_EachPromptAnsweredOnce ==
    /\ [](Written("wav") <= 1 /\ Written("mode") <= 1)
    /\ (cpc = "wav_prompt") ~> (Written("wav") = 1)
    /\ (cpc = "mode_prompt") ~> (Written("mode") = 1)

\* C24: for every (finite) picked BPM b the set of octave candidates that
\* half_double_normalize builds in its 3 iterations is exactly
\* {b * 2^k : k = -3..3}: it contains b itself and has at most 7 distinct values
\* (exactly 7 for b > 0).
C24_OctaveCandidatesExact ==
    (pc = "returned" /\ BothBounds(call.prefer) /\ call.bpm # NaN)
    => LET cands == OctaveCandidates({call.bpm}, OctaveDepth)
       IN  /\ cands = Generated(call.bpm)
           /\ call.bpm \in cands
           /\ Cardinality(cands) <= 2 * OctaveDepth + 1
           /\ call.bpm[1] > 0 => Cardinality(cands) = 2 * OctaveDepth + 1

C24_Witness ==
    /\ pc = "returned"
    /\ call.bpm = <<184, 1>> /\ call.prefer = <<<<85, 1>>, <<95, 1>>>>
    /\ OctaveCandidates({call.bpm}, OctaveDepth)
           = {<<23, 1>>, <<46, 1>>, <<92, 1>>, <<184, 1>>, <<368, 1>>, <<736, 1>>,
              <<1472, 1>>}

\* A preferred range narrower than one octave: 0 < min <= max < 2 * min.
NarrowRange(prefer) ==
    /\ BothBounds(prefer)
    /\ prefer[1][1] > 0
    /\ RLe(prefer[1], prefer[2])
    /\ RLt(prefer[2], Double(prefer[1]))

\* C28: for a preferred range with 0 < min <= max < 2*min and any positive BPM b,
\* half_double_normalize is idempotent: normalizing its own result again with the
\* same range returns the same value.
C28_NormalizeIdempotent ==
    (pc = "returned again" /\ NarrowRange(call.prefer)
        /\ call.bpm # NaN /\ call.bpm[1] > 0)
    => ret = call.bpm

C28_Witness ==
    /\ pc = "returned again"
    /\ call.prefer = <<<<85, 1>>, <<95, 1>>>>
    /\ report1 = <<184, 1>>
    /\ call.bpm = <<92, 1>>
    /\ ret = <<92, 1>>

ValidRange(prefer) == BothBounds(prefer) /\ RLt(prefer[1], prefer[2])

\* |b - centre| <= |e - centre| for centre = (min + max) / 2
NotFarther(b, e, prefer) == ~Nearer(e, b, prefer[1], prefer[2])

\* C25: with a valid preferred range the prior keeps one weighted strength per
\* profile entry, no weighted strength exceeds the raw one and an entry at the
\* centre (min+max)/2 keeps its full strength; of two entries with equal positive
\* strength the one not farther from the centre never gets the lower weighted
\* strength; the standard deviation used is never below 1.0.
C25_PriorMonotone ==
    (pc = "returned" /\ ValidRange(call.prefer))
    => /\ Len(ret) = Len(call.strengths) /\ Len(ret) = Len(call.bpms)
       /\ \A i \in 1..Len(ret) :
              /\ ret[i] <= call.strengths[i]
              /\ call.bpms[i] = Half(RAdd(call.prefer[1], call.prefer[2]))
                     => ret[i] = call.strengths[i]
       /\ \A i, j \in 1..Len(ret) :
              (call.strengths[i] = call.strengths[j] /\ call.strengths[i] > 0
                  /\ NotFarther(call.bpms[i], call.bpms[j], call.prefer))
              => ret[i] >= ret[j]
       /\ RLe(<<1, 1>>, Sigma(call.prefer[1], call.prefer[2]))

C25_Witness ==
    /\ pc = "returned"
    /\ call.prefer = <<<<80, 1>>, <<81, 1>>>>
    /\ call.bpms = <<<<82, 1>>, <<80, 1>>>>
    /\ call.strengths = <<10000, 10000>>
    /\ ret[1] < ret[2] /\ ret[1] > 0
    /\ Sigma(call.prefer[1], call.prefer[2]) = <<1, 1>>

Labels(lines) == [i \in 1..Len(lines) |-> lines[i][1]]

ReportLabels ==
    <<"File", "SR/HL">>
    \o (IF BothBounds(argv.prefer) THEN <<"Prefers">> ELSE <<>>)
    \o <<"Candidates">>
    \o (IF argv.aggregate # "none" THEN <<"Aggregate">> ELSE <<>>)
    \o <<"Picked">>

\* C27: main either prints the complete report in the order File, SR/HL,
\* optional Prefers, Candidates, optional Aggregate, Picked and returns 0, or
\* prints no report line on standard output and ends non-zero (2 for a missing
\* file, 1 for a failure during analysis); a partial report is never printed.
C27_ReportAllOrNothing ==
    /\ pc # "done" => stdout = <<>>
    /\ pc = "done"
       => \/ rc = 0 /\ stdout = Report /\ Labels(stdout) = ReportLabels
          \/ rc = 2 /\ ~audio_exists /\ stdout = <<>>
          \/ rc = 1 /\ audio_exists /\ stdout = <<>>

TempoLines == {i \in 1..Len(summary) : summary[i][1] = "TEMPO (Aggregate/Median)"}

\* C26: a report printed in median mode with a finite aggregate is parsed by
\* parse_aggregate_bpm to exactly the two-decimal number of its 'Aggregate
\* (median)' line, and the summary carries it; for output without that line
\* (mean or none mode, or a run that did not return 0) the result is the empty
\* string and the summary has no TEMPO line.
C26_AggregateParsed ==
    summary # None
    => /\ (rc = 0 /\ args.aggregate = "median" /\ agg_value # NaN)
          => /\ parsed_bpm = Fmt2(agg_value)
             /\ \E i \in 1..Len(stdout) : stdout[i] = <<"Aggregate", "median", parsed_bpm>>
             /\ \E i \in TempoLines : summary[i][2] = parsed_bpm
       /\ (rc # 0 \/ args.aggregate # "median")
          => parsed_bpm = NoMatch /\ TempoLines = {}

C26_Witness ==
    /\ summary # None /\ rc = 0
    /\ args.aggregate = "median"
    /\ stdout[4] = <<"Aggregate", "median", <<80, 0>>>>
    /\ parsed_bpm = <<80, 0>>
    /\ summary[3] = <<"TEMPO (Aggregate/Median)", <<80, 0>>>>

C26_WitnessMean ==
    /\ summary # None /\ rc = 0
    /\ args.aggregate = "mean"
    /\ stdout[4] = <<"Aggregate", "mean", <<80, 0>>>>
    /\ parsed_bpm = NoMatch
    /\ Len(summary) = 3

\* The number of the first match of the k-th pattern of parse_tempo, or NoMatch.
FirstNumber(k, text) == re_search(TempoPatterns[k], text)

\* parse_tempo returns the first 'tempo = <number>', else the first
\* '<number> BPM', else the first 'BPM: <number>', else 'Unknown'.
TempoOrder ==
    pc = "returned"
    => /\ FirstNumber(1, call) # NoMatch => ret = FirstNumber(1, call)
       /\ (FirstNumber(1, call) = NoMatch /\ FirstNumber(2, call) # NoMatch)
          => ret = FirstNumber(2, call)
       /\ (FirstNumber(1, call) = NoMatch /\ FirstNumber(2, call) = NoMatch
             /\ FirstNumber(3, call) # NoMatch)
          => ret = FirstNumber(3, call)
       /\ ret = <<"Unknown">> <=> \A k \in 1..3 : FirstNumber(k, call) = NoMatch

Shown(x) == x # None /\ x # NaN

\* C30 as stated: parse_tempo follows the order above, and on a findtemp report
\* produced without a preferred range it returns the Aggregate value, not the
\* Picked value.
C30_AggregateNotPicked ==
    /\ TempoOrder
    /\ (tempo_val # None /\ rc = 0 /\ ~BothBounds(argv.prefer))
       => Shown(agg_value) /\ tempo_val = Fmt2(agg_value)

\* C30 (amended): parse_tempo follows the order above; on a findtemp report
\* produced without a preferred range it returns the number of the Aggregate
\* line when the report has one that shows a number, else (aggregate mode none,
\* or an aggregate printed as nan) the Picked value, and 'Unknown' when that is
\* nan too.
C30_FirstBpmLine ==
    /\ TempoOrder
    /\ (tempo_val # None /\ rc = 0 /\ ~BothBounds(argv.prefer))
       => tempo_val = IF Shown(agg_value) THEN Fmt2(agg_value)
                      ELSE IF pick_bpm # NaN THEN Fmt2(pick_bpm)
                      ELSE <<"Unknown">>

C30_Witness ==
    /\ tempo_val # None /\ rc = 0 /\ ~BothBounds(argv.prefer)
    /\ args.aggregate = "none"
    /\ candidates = <<<<80, 1>>>> /\ pick_bpm = <<160, 1>>
    /\ tempo_val = <<160, 0>>

C30_WitnessAggregate ==
    /\ tempo_val # None /\ rc = 0 /\ ~BothBounds(argv.prefer)
    /\ args.aggregate = "median"
    /\ agg_value = <<80, 1>> /\ pick_bpm = <<160, 1>>
    /\ tempo_val = <<80, 0>>

C30_WitnessNan ==
    /\ tempo_val # None /\ rc = 0 /\ ~BothBounds(argv.prefer)
    /\ args.aggregate = "median"
    /\ agg_value = NaN /\ pick_bpm = <<160, 1>>
    /\ tempo_val = <<160, 0>>

C30_WitnessOrder ==
    /\ pc = "returned"
    /\ call = <<<<"BPM">>, <<":">>, SP, IntTok(90), NL, IntTok(64), SP, <<"bpm">>, NL,
                <<"Tempo">>, <<"=">>, <<99, 50>>, NL>>
    /\ ret = <<99, 50>>

\* The methods the log shows as started, in the order they were started.
Selected ==
    LET lines == SelectSeq(glog, LAMBDA line : line[1] = "Selected downloader")
    IN  [i \in 1..Len(lines) |-> lines[i][2]]

\* The scripts of methods/youtube/ that exist, or else the legacy one.
Available ==
    IF gfs.exists \cap {MethodNames[i] : i \in 1..3} # {}
    THEN gfs.exists \cap {MethodNames[i] : i \in 1..3}
    ELSE gfs.exists \cap {LegacyMethod}

Rank(method) ==
    IF method = LegacyMethod THEN 0 ELSE CHOOSE i \in 1..3 : MethodNames[i] = method

\* C21: for a YouTube link the methods are started in the order method1,
\* method2, method3; a method is started only after every earlier available one
\* was started and failed to yield an existing output file; the run ends with
\* the path of the first method that yields one, and '==broken==' is logged
\* only when every available method failed.
C21_MethodsInOrder ==
    gpc # "off"
    => /\ \A k \in 1..Len(Selected) :
              /\ Selected[k] \in Available
              /\ \A e \in Available :
                     Rank(e) < Rank(Selected[k])
                     => /\ gfs.yields[e] = "none"
                        /\ \E j \in 1..(k - 1) : Selected[j] = e
       /\ gpc = "returned"
          => /\ \A m \in Available :
                    (gfs.yields[m] # "none"
                       /\ \A e \in Available : Rank(e) < Rank(m) => gfs.yields[e] = "none")
                    => out_path = OutputOf(m)
             /\ out_path # None => <<"SUCCESS">> = glog[Len(glog)]
       /\ (\E i \in 1..Len(glog) : glog[i] = <<"==broken==">>)
          => /\ \A m \in Available : gfs.yields[m] = "none"
             /\ out_path = None

C21_Witness ==
    /\ gpc = "returned"
    /\ Selected = MethodNames
    /\ gfs.yields[MethodNames[3]] = "cli"
    /\ out_path = OutputOf(MethodNames[3])

C21_WitnessBroken ==
    /\ gpc = "returned"
    /\ Selected = <<MethodNames[1], MethodNames[3]>>
    /\ glog[Len(glog)] = <<"==broken==">>

\* C29: under every interleaving of the picker's write with the poller's reads
\* the path the polling loop accepts is the complete path getaudiofile2 wrote,
\* never an empty or truncated prefix of it.
C29_AcceptsWholePath ==
    ppc = "accepted" => selected_path = chosen_abs

\* The selected file's name neither ends in a blank nor in a double quote.
PlainName == chosen_abs[Len(chosen_abs)] \notin {SP, <<"\"">>}

\* What the interleavings alone allow: a path without such an ending is
\* accepted whole.
AcceptsWholePlainPath ==
    (ppc = "accepted" /\ PlainName) => selected_path = chosen_abs

(***************************************************************************)
(* checkpoint.py: where the WAV comes from, and the exit codes               *)
(***************************************************************************)
\* the --wav argument names an existing .wav
ArgWavValid == cp_args.wav # None /\ IsWav(cp_args.wav)

\* the manifest names an existing .wav
ManifestValid == fs.manifest # None /\ IsWav(fs.manifest)

\* the WAV prompt has been printed
WavPrompted == \E i \in 1..Len(pty_out) : pty_out[i] = WavPrompt[1]

\* C22: the WAV is the --wav argument when that is an existing .wav, else the
\* manifest's file, else the newest recent .wav of Downloads, else the line typed
\* at the prompt; a source is used, and the prompt printed, only when every
\* earlier source gave no valid .wav.
C22_WavResolutionOrder ==
    (cp_args # None /\ cpc \notin {"off", "main", "wav"}) =>
        /\ wav_path # None =>
              /\ ArgWavValid => wav_path = cp_args.wav
              /\ (~ArgWavValid /\ ManifestValid) => wav_path = fs.manifest
              /\ (~ArgWavValid /\ ~ManifestValid /\ fs.downloads # None)
                     => wav_path = fs.downloads
              /\ (~ArgWavValid /\ ~ManifestValid /\ fs.downloads = None)
                     => (wav_path[1] = "typed" /\ IsWav(wav_path) /\ WavPrompted)
        /\ WavPrompted => (~ArgWavValid /\ ~ManifestValid /\ fs.downloads = None)
        /\ (wav_path = None /\ fs.stems_root) => WavPrompted

\* C23: checkpoint.py returns 0 only when the splitter ran and exited 0, 4 when it
\* ran and exited non-zero, 3 exactly when no source gave a valid .wav, 2 when the
\* stems root or the chosen splitter script is missing; the splitter is never
\* started on a run that returns 2 or 3.
C23_ExitCodes ==
    cpc = "exited" =>
        /\ returncode \in {0, 2, 3, 4}
        /\ returncode = 0 <=> (handed # None /\ fs.splitter_ok)
        /\ returncode = 4 <=> (handed # None /\ ~fs.splitter_ok)
        /\ returncode = 3 <=> (fs.stems_root /\ ~(wav_path # None /\ IsWav(wav_path)))
        /\ returncode = 2 <=>
              \/ ~fs.stems_root
              \/ /\ wav_path # None /\ mode_arg # None
                 /\ (IF mode_arg = <<"1">> THEN "basicsplitter.py" ELSE "splitter.py")
                        \notin fs.scripts
        /\ returncode \in {2, 3} => handed = None

====
